---------------------------- MODULE Spec2Model ----------------------------
(***************************************************************************)
(* A model of LandsatToolkit's scene catalog and spectral-index pipeline:  *)
(* SceneOperations (scene_operations.py), SceneProcessor                   *)
(* (scene_processor.py), IndexCalculator (index_calculator.py) and the     *)
(* normalized-difference helper (utils/helper_functions.py).               *)
(*                                                                         *)
(* Python strings are sequences of one-character strings, so that          *)
(* str.lower, "in", str.split, str.join and str.startswith are computed    *)
(* character by character.  Pixel values are exact fractions <<n, d>>;     *)
(* d = 0 encodes the non-finite floating-point values (<<1,0>> = +inf,     *)
(* <<-1,0>> = -inf, <<0,0>> = NaN).  Arithmetic on a uint16 array keeps    *)
(* its 16-bit width.  Floating-point rounding is not modelled.             *)
(***************************************************************************)
EXTENDS Integers, Sequences, FiniteSets, TLC

VARIABLES
    op,             \* the operation that ran last ("init" before any)
    file_name,      \* argument of detect_satellite_type / the scene-id expression
    satellite_type, \* value returned by detect_satellite_type
    scene_id,       \* value of "_".join(file_name.split("_")[:7])
    input_folder,   \* SceneOperations.input_folder
    listing,        \* os.listdir(input_folder), in listing order
    folder_exists,  \* whether input_folder exists on disk
    scenes,         \* value returned by group_files_by_scene
    printed,        \* the diagnostics the last operation printed
    call,           \* arguments of the last calculate_and_save_index call
    outcome         \* what that call did: exception raised, grid computed, file written

vars == <<op, file_name, satellite_type, scene_id, input_folder, listing,
          folder_exists, scenes, printed, call, outcome>>

None == "None"

-----------------------------------------------------------------------------
(* Bounds of the model.                                                    *)

\* most "_a" tokens between the sensor token and the band suffix of a name
MaxMid == 7
\* most entries of a modelled directory listing
MaxFiles == 3
\* most bands of a modelled band stack
MaxBands == 7

-----------------------------------------------------------------------------
(* Python string operations, on sequences of characters.                   *)

UpperChars == <<"A","B","C","D","E","F","G","H","I","J","K","L","M",
                "N","O","P","Q","R","S","T","U","V","W","X","Y","Z">>
LowerChars == <<"a","b","c","d","e","f","g","h","i","j","k","l","m",
                "n","o","p","q","r","s","t","u","v","w","x","y","z">>

\* str.lower() on one character
LowerChar(c) ==
    IF \E i \in 1..Len(UpperChars) : UpperChars[i] = c
    THEN LowerChars[CHOOSE i \in 1..Len(UpperChars) : UpperChars[i] = c]
    ELSE c

\* str.upper() on one character
UpperChar(c) ==
    IF \E i \in 1..Len(LowerChars) : LowerChars[i] = c
    THEN UpperChars[CHOOSE i \in 1..Len(LowerChars) : LowerChars[i] = c]
    ELSE c

\* s.lower()
Lower(s) == [i \in 1..Len(s) |-> LowerChar(s[i])]

\* s.upper()
Upper(s) == [i \in 1..Len(s) |-> UpperChar(s[i])]

\* sub in s
Contains(sub, s) ==
    \E i \in 1..(Len(s) - Len(sub) + 1) : SubSeq(s, i, i + Len(sub) - 1) = sub

\* s.startswith(p)
StartsWith(s, p) == Len(s) >= Len(p) /\ SubSeq(s, 1, Len(p)) = p

\* s.endswith(p)
EndsWith(s, p) ==
    Len(s) >= Len(p) /\ SubSeq(s, Len(s) - Len(p) + 1, Len(s)) = p

\* s.split(c): the tokens between the occurrences of the character c
RECURSIVE SplitFrom(_, _, _)
SplitFrom(s, c, cur) ==
    IF s = <<>> THEN <<cur>>
    ELSE IF Head(s) = c THEN <<cur>> \o SplitFrom(Tail(s), c, <<>>)
    ELSE SplitFrom(Tail(s), c, Append(cur, Head(s)))

Split(s, c) == SplitFrom(s, c, <<>>)

\* toks[:k]
Take(toks, k) == SubSeq(toks, 1, IF Len(toks) < k THEN Len(toks) ELSE k)

\* c.join(toks)
RECURSIVE Join(_, _)
Join(c, toks) ==
    IF toks = <<>> THEN <<>>
    ELSE IF Len(toks) = 1 THEN toks[1]
    ELSE toks[1] \o <<c>> \o Join(c, Tail(toks))

\* os.path.join(folder, name) for a name that holds no "/"
PathJoin(folder, name) ==
    IF folder = <<>> THEN name
    ELSE IF folder[Len(folder)] = "/" THEN folder \o name
    ELSE folder \o <<"/">> \o name

-----------------------------------------------------------------------------
(* Scene catalog: classification and scene ids.                            *)

LE07 == <<"l","e","0","7">>
LC08 == <<"l","c","0","8">>
LC09 == <<"l","c","0","9">>

\* a variant of detect_satellite_type that tests the markers in another order
detect_satellite_type_reordered(name) ==
    IF name = <<>> THEN None
    ELSE IF Contains(LC08, Lower(name)) THEN "landsat8"
    ELSE IF Contains(LE07, Lower(name)) THEN "landsat7"
    ELSE IF Contains(LC09, Lower(name)) THEN "landsat9"
    ELSE None

\* SceneOperations.detect_satellite_type: an empty name raises ValueError,
\* which the method catches and prints, so that it returns None
detect_satellite_type(name) ==
    IF name = <<>> THEN None
    ELSE IF Contains(LE07, Lower(name)) THEN "landsat7"
    ELSE IF Contains(LC08, Lower(name)) THEN "landsat8"
    ELSE IF Contains(LC09, Lower(name)) THEN "landsat9"
    ELSE None

\* SceneProcessor.detect_satellite_type (no validation of the argument)
SP_detect_satellite_type(name) ==
    IF Contains(LE07, Lower(name)) THEN "landsat7"
    ELSE IF Contains(LC08, Lower(name)) THEN "landsat8"
    ELSE IF Contains(LC09, Lower(name)) THEN "landsat9"
    ELSE None

\* a variant of SceneIdOf that keeps one token fewer
SceneIdOf_six(name) == Join("_", Take(Split(name, "_"), 6))

\* scene_id = "_".join(file_name.split("_")[:7])
SceneIdOf(name) == Join("_", Take(Split(name, "_"), 7))


-----------------------------------------------------------------------------
(* The file names the model draws its inputs from, after the convention    *)
(* <SENSOR>_<token>..._<BAND_SUFFIX>.<ext>.                                *)

\* first token: sensor markers in several cases, two markers in one token,
\* a hidden file, a near miss and an unrelated token
Sensors ==
    { <<"L","C","0","8">>, <<"l","c","0","9">>, <<"L","e","0","7">>,
      <<"x","x">>, <<".","L","C","0","8">>, <<"L","E","0">>,
      <<"L","C","0","9","L","E","0","7">>, <<"L","C","0","9","l","c","0","8">> }

\* last tokens before the extension: a band suffix, or a late sensor marker
Suffixes ==
    { <<>>, <<"_","S","R","_","B","4">>, <<"_","s","r","_","b","5">>,
      <<"_","L","E","0","7">> }

Extensions == { <<>>, <<".","T","I","F">>, <<".","t","x","t">> }

\* n tokens "_a", the last of them replaced by "_" \o last
RECURSIVE Mid(_, _)
Mid(n, last) ==
    IF n = 0 THEN <<>>
    ELSE IF n = 1 THEN <<"_">> \o last
    ELSE <<"_","a">> \o Mid(n - 1, last)

LastTokens == { <<"a">>, <<"b">>, <<>> }

FileNames ==
    { s \o Mid(n, t) \o b \o e :
        s \in Sensors, n \in 0..MaxMid, t \in LastTokens,
        b \in Suffixes, e \in Extensions }

-----------------------------------------------------------------------------
(* Specification SpecNames: detect_satellite_type and the scene-id         *)
(* expression applied to one file name.                                    *)

NoCall == [impl |-> None]
NoOutcome == [raised |-> None]

InitNames ==
    /\ op = "init"
    /\ file_name \in FileNames
    /\ satellite_type = "unset"
    /\ scene_id = <<>>
    /\ input_folder = <<>>
    /\ listing = <<>>
    /\ folder_exists = TRUE
    /\ scenes = None
    /\ printed = <<>>
    /\ call = NoCall
    /\ outcome = NoOutcome

\* what detect_satellite_type prints for a name
detect_printed(name) ==
    IF name = <<>> THEN << [kind |-> "ValueError", about |-> name] >>
    ELSE IF detect_satellite_type(name) = None
    THEN << [kind |-> "Unsupported satellite type", about |-> Lower(name)] >>
    ELSE <<>>

\* SceneOperations.detect_satellite_type(file_name)
DetectSatelliteType ==
    /\ op' = "detect_satellite_type"
    /\ satellite_type' = detect_satellite_type(file_name)
    /\ printed' = detect_printed(file_name)
    /\ UNCHANGED <<file_name, scene_id, input_folder, listing, folder_exists,
                   scenes, call, outcome>>

\* SceneProcessor.detect_satellite_type(file_name)
SPDetectSatelliteType ==
    /\ op' = "SP_detect_satellite_type"
    /\ satellite_type' = SP_detect_satellite_type(file_name)
    /\ printed' = IF SP_detect_satellite_type(file_name) = None
                  THEN << [kind |-> "Unsupported satellite type",
                           about |-> Lower(file_name)] >>
                  ELSE <<>>
    /\ UNCHANGED <<file_name, scene_id, input_folder, listing, folder_exists,
                   scenes, call, outcome>>

\* the scene-id expression of group_files_by_scene, on file_name
ComputeSceneId ==
    /\ op' = "scene_id"
    /\ scene_id' = SceneIdOf(file_name)
    /\ printed' = <<>>
    /\ UNCHANGED <<file_name, satellite_type, input_folder, listing, folder_exists,
                   scenes, call, outcome>>

NextNames == DetectSatelliteType \/ SPDetectSatelliteType \/ ComputeSceneId

SpecNames == InitNames /\ [][NextNames]_vars

-----------------------------------------------------------------------------
(* Scene catalog: grouping.  A grouping is the dict group_files_by_scene   *)
(* returns, as the sequence of its items in insertion order: records       *)
(* [id |-> scene id, files |-> the list of paths].                         *)

\* the index of the item of a grouping with the key sid, 0 when there is none
ItemIndex(d, sid) ==
    IF \E i \in 1..Len(d) : d[i].id = sid
    THEN CHOOSE i \in 1..Len(d) : d[i].id = sid
    ELSE 0

\* d.setdefault(sid, []).append(path)
SetDefaultAppend(d, sid, path) ==
    IF ItemIndex(d, sid) = 0
    THEN Append(d, [id |-> sid, files |-> <<path>>])
    ELSE [d EXCEPT ![ItemIndex(d, sid)].files = Append(@, path)]

\* d.get(sid, [])
ScenesGet(d, sid) ==
    IF ItemIndex(d, sid) = 0 THEN <<>> ELSE d[ItemIndex(d, sid)].files

\* list(d.keys())
ScenesKeys(d) == [i \in 1..Len(d) |-> d[i].id]

\* a variant of GroupLoop that does not skip hidden files
RECURSIVE GroupLoop_keeps_hidden(_, _, _)
GroupLoop_keeps_hidden(folder, names, acc) ==
    IF names = <<>> THEN acc
    ELSE LET name == Head(names) IN
         IF detect_satellite_type(name) = None
         THEN GroupLoop_keeps_hidden(folder, Tail(names), acc)
         ELSE GroupLoop_keeps_hidden(folder, Tail(names),
                  SetDefaultAppend(acc, SceneIdOf(name), PathJoin(folder, name)))

\* a variant of GroupLoop that ends the scan at the first unrecognized name
RECURSIVE GroupLoop_stops_at_unknown(_, _, _)
GroupLoop_stops_at_unknown(folder, names, acc) ==
    IF names = <<>> THEN acc
    ELSE LET name == Head(names) IN
         IF StartsWith(name, <<".">>)
         THEN GroupLoop_stops_at_unknown(folder, Tail(names), acc)
         ELSE IF detect_satellite_type(name) = None
         THEN acc
         ELSE GroupLoop_stops_at_unknown(folder, Tail(names),
                  SetDefaultAppend(acc, SceneIdOf(name), PathJoin(folder, name)))

\* the loop of group_files_by_scene over the directory listing
RECURSIVE GroupLoop(_, _, _)
GroupLoop(folder, names, acc) ==
    IF names = <<>> THEN acc
    ELSE LET name == Head(names) IN
         IF StartsWith(name, <<".">>)
         THEN GroupLoop(folder, Tail(names), acc)
         ELSE IF detect_satellite_type(name) = None
         THEN GroupLoop(folder, Tail(names), acc)
         ELSE GroupLoop(folder, Tail(names),
                  SetDefaultAppend(acc, SceneIdOf(name), PathJoin(folder, name)))

\* SceneOperations.group_files_by_scene: the grouping, or None when the
\* folder is missing (FileNotFoundError is caught and printed)
group_files_by_scene(folder, exists, names) ==
    IF ~exists THEN None ELSE GroupLoop(folder, names, <<>>)

\* what the loop of group_files_by_scene prints
RECURSIVE GroupLoopPrinted(_)
GroupLoopPrinted(names) ==
    IF names = <<>> THEN <<>>
    ELSE LET name == Head(names) IN
         IF StartsWith(name, <<".">>) THEN GroupLoopPrinted(Tail(names))
         ELSE IF detect_satellite_type(name) = None
         THEN detect_printed(name)
              \o << [kind |-> "Skipping file", about |-> name] >>
              \o GroupLoopPrinted(Tail(names))
         ELSE GroupLoopPrinted(Tail(names))

\* everything group_files_by_scene prints
group_printed(folder, exists, names) ==
    IF ~exists THEN << [kind |-> "FileNotFoundError", about |-> folder] >>
    ELSE GroupLoopPrinted(names)
         \o << [kind |-> "Grouped", about |-> folder] >>

\* what SceneProcessor.group_files_by_scene prints: only the line of
\* detect_satellite_type for an unrecognized name
RECURSIVE SP_group_printed(_)
SP_group_printed(names) ==
    IF names = <<>> THEN <<>>
    ELSE LET name == Head(names) IN
         IF StartsWith(name, <<".">>) THEN SP_group_printed(Tail(names))
         ELSE IF SP_detect_satellite_type(name) = None
         THEN << [kind |-> "Unsupported satellite type", about |-> Lower(name)] >>
              \o SP_group_printed(Tail(names))
         ELSE SP_group_printed(Tail(names))

\* SceneProcessor.group_files_by_scene on an existing folder (the folder is
\* not checked)
SP_group_files_by_scene(folder, names) == GroupLoop(folder, names, <<>>)

\* how SceneOperations.group_files_by_scene ends: the FileNotFoundError it
\* raises for a missing folder is caught by its own handler and printed, and
\* the method returns None
group_outcome(exists) ==
    [ raised |-> None,
      caught |-> IF exists THEN None ELSE "FileNotFoundError" ]

\* how SceneProcessor.group_files_by_scene ends: the FileNotFoundError of
\* os.listdir reaches the caller
SP_group_outcome(exists) ==
    [ raised |-> IF exists THEN None ELSE "FileNotFoundError",
      caught |-> None ]

-----------------------------------------------------------------------------
(* Specification SpecCatalog: one input folder and its listing.            *)

\* the file names a modelled folder may hold: two band files of one LC08
\* scene, a file of an LE07 scene, a hidden file, an unrecognized file and a
\* short name
FolderNames ==
    { <<"L","C","0","8">> \o Mid(6, <<"a">>) \o <<"_","S","R","_","B","4">> \o <<".","T","I","F">>,
      <<"L","C","0","8">> \o Mid(6, <<"a">>) \o <<"_","s","r","_","b","5">> \o <<".","T","I","F">>,
      <<"L","e","0","7">> \o Mid(6, <<"b">>) \o <<"_","S","R","_","B","4">> \o <<".","T","I","F">>,
      <<".","L","C","0","8">> \o Mid(6, <<"a">>) \o <<"_","S","R","_","B","4">> \o <<".","T","I","F">>,
      <<"x","x">> \o Mid(6, <<"a">>) \o <<"_","S","R","_","B","4">> \o <<".","T","I","F">>,
      <<"l","c","0","9">> \o <<".","t","x","t">> }

\* the input folders: a plain one, and one whose own name holds a marker
Folders == { <<"i","n">>, <<"d","/","x","_","S","R","_","B","/">> }

\* the listings: the sequences of distinct names, at most MaxFiles long
RECURSIVE ListingsOfLen(_)
ListingsOfLen(n) ==
    IF n = 0 THEN { <<>> }
    ELSE { Append(l, f) : l \in ListingsOfLen(n - 1), f \in FolderNames }

NoRepeat(l) == \A i, j \in 1..Len(l) : i # j => l[i] # l[j]

Listings ==
    { l \in UNION { ListingsOfLen(n) : n \in 0..MaxFiles } : NoRepeat(l) }

InitCatalog ==
    /\ op = "init"
    /\ file_name = <<>>
    /\ satellite_type = "unset"
    /\ scene_id = <<>>
    /\ input_folder \in Folders
    /\ listing \in Listings
    /\ folder_exists = TRUE
    /\ scenes = None
    /\ printed = <<>>
    /\ call = NoCall
    /\ outcome = NoOutcome

\* SceneOperations.group_files_by_scene()
GroupFilesByScene ==
    /\ op' = "group_files_by_scene"
    /\ scenes' = group_files_by_scene(input_folder, folder_exists, listing)
    /\ printed' = group_printed(input_folder, folder_exists, listing)
    /\ outcome' = group_outcome(folder_exists)
    /\ UNCHANGED <<file_name, satellite_type, scene_id, input_folder, listing,
                   folder_exists, call>>

\* SceneProcessor.group_files_by_scene(): os.listdir raises on a missing
\* folder and nothing catches it
SPGroupFilesByScene ==
    /\ op' = "SP_group_files_by_scene"
    /\ scenes' = IF folder_exists
                 THEN SP_group_files_by_scene(input_folder, listing)
                 ELSE None
    /\ printed' = IF folder_exists THEN SP_group_printed(listing) ELSE <<>>
    /\ outcome' = SP_group_outcome(folder_exists)
    /\ UNCHANGED <<file_name, satellite_type, scene_id, input_folder, listing,
                   folder_exists, call>>

\* the environment removes the input folder after construction
RemoveFolder ==
    /\ folder_exists
    /\ op' = "remove_folder"
    /\ folder_exists' = FALSE
    /\ listing' = <<>>
    /\ printed' = <<>>
    /\ UNCHANGED <<file_name, satellite_type, scene_id, input_folder, scenes,
                   call, outcome>>

NextCatalog == GroupFilesByScene \/ SPGroupFilesByScene \/ RemoveFolder

SpecCatalog == InitCatalog /\ [][NextCatalog]_vars

-----------------------------------------------------------------------------
(* Pixel arithmetic.  A value is a fraction <<n, d>> in lowest terms with  *)
(* d > 0, or one of <<1,0>> (+inf), <<-1,0>> (-inf), <<0,0>> (NaN).        *)

Abs(n) == IF n < 0 THEN -n ELSE n

Sign(n) == IF n < 0 THEN -1 ELSE IF n > 0 THEN 1 ELSE 0

RECURSIVE Gcd(_, _)
Gcd(a, b) == IF b = 0 THEN a ELSE Gcd(b, a % b)

\* the value n/d in lowest terms; n/0 is +inf, -inf or NaN by the sign of n
Frac(n, d) ==
    IF d = 0 THEN <<Sign(n), 0>>
    ELSE LET g == Gcd(Abs(n), Abs(d))
         IN  <<Sign(d) * (n \div g), Abs(d) \div g>>

Zero == <<0, 1>>
NaN  == <<0, 0>>

\* np.isfinite
IsFinite(x) == x[2] # 0

\* floating-point +, -, *, / (exact on finite values, IEEE on the others)
FAdd(a, b) ==
    IF IsFinite(a) /\ IsFinite(b) THEN Frac(a[1] * b[2] + b[1] * a[2], a[2] * b[2])
    ELSE IF a = NaN \/ b = NaN THEN NaN
    ELSE IF IsFinite(a) THEN b
    ELSE IF IsFinite(b) THEN a
    ELSE IF a = b THEN a ELSE NaN

FNeg(a) == <<-a[1], a[2]>>

FSub(a, b) == FAdd(a, FNeg(b))

FMul(a, b) == Frac(a[1] * b[1], a[2] * b[2])

FDiv(a, b) ==
    IF a = NaN \/ b = NaN THEN NaN
    ELSE IF ~IsFinite(b) THEN (IF IsFinite(a) THEN Zero ELSE NaN)
    ELSE IF ~IsFinite(a) THEN <<a[1] * (IF b[1] < 0 THEN -1 ELSE 1), 0>>
    ELSE Frac(a[1] * b[2], a[2] * b[1])

\* numpy's + and - on two uint16 arrays: the result is uint16
Width == 65536

U16Add(a, b) == <<(a[1] + b[1]) % Width, 1>>

U16Sub(a, b) == <<(a[1] - b[1]) % Width, 1>>

\* band1 + band2 on arrays of the given dtype
Add(dtype, a, b) == IF dtype = "uint16" THEN U16Add(a, b) ELSE FAdd(a, b)

\* band1 - band2 on arrays of the given dtype
Sub(dtype, a, b) == IF dtype = "uint16" THEN U16Sub(a, b) ELSE FSub(a, b)

\* np.where(np.isfinite(x), x, 0)
FiniteOrZero(x) == IF IsFinite(x) THEN x ELSE Zero

\* the soil adjustment factor, 0.5
SAVI_L == <<1, 2>>
One == <<1, 1>>

\* element-wise application of a two-argument pixel operation to two grids
Map2(F(_, _), g1, g2) == [p \in 1..Len(g1) |-> F(g1[p], g2[p])]

\* the index names
NDVI == <<"N","D","V","I">>
NDWI == <<"N","D","W","I">>
NDBI == <<"N","D","B","I">>
SAVI == <<"S","A","V","I">>

SupportedIndices == {NDVI, NDWI, NDBI, SAVI}

-----------------------------------------------------------------------------
(* Index formulas of SceneOperations: fixed stack positions, the dtype of  *)
(* the stack kept, non-finite results replaced by 0.                       *)

\* (b1 - b2) / (b1 + b2), then np.where(np.isfinite(..), .., 0), per pixel
SO_normalized(dtype, b1, b2) ==
    LET F(x, y) == FiniteOrZero(FDiv(Sub(dtype, x, y), Add(dtype, x, y)))
    IN  Map2(F, b1, b2)

\* ((nir - red) / (nir + red + L)) * (1 + L), then the same replacement
SO_savi(dtype, nir, red, L) ==
    LET F(x, y) ==
            FiniteOrZero(FMul(FDiv(Sub(dtype, x, y), FAdd(Add(dtype, x, y), L)),
                              FAdd(One, L)))
    IN  Map2(F, nir, red)

\* the number of bands calculate_<index> requires of the matrix
SO_required(index_type) == IF index_type = NDBI THEN 6 ELSE 5

\* the two bands calculate_<index> takes: matrix[i] is bands[i + 1]
SO_operands(bands, index_type) ==
    IF index_type = NDVI THEN <<bands[5], bands[4]>>
    ELSE IF index_type = NDWI THEN <<bands[3], bands[5]>>
    ELSE IF index_type = NDBI THEN <<bands[6], bands[5]>>
    ELSE <<bands[5], bands[4]>>

\* calculate_ndvi / calculate_ndwi / calculate_ndbi / calculate_savi on a
\* matrix with enough bands
SO_index(matrix, index_type) ==
    LET o == SO_operands(matrix.bands, index_type)
    IN  IF index_type = SAVI
        THEN SO_savi(matrix.dtype, o[1], o[2], SAVI_L)
        ELSE SO_normalized(matrix.dtype, o[1], o[2])

-----------------------------------------------------------------------------
(* Index formulas of IndexCalculator: stack positions by satellite type,   *)
(* bands converted to float32 first.                                       *)

\* the zero-based stack position of each role, per satellite type
band_mapping ==
    [ landsat7 |-> [red |-> 2, green |-> 1, nir |-> 3, swir |-> 4],
      landsat8 |-> [red |-> 3, green |-> 2, nir |-> 4, swir |-> 5],
      landsat9 |-> [red |-> 3, green |-> 2, nir |-> 4, swir |-> 5] ]

\* _calculate_normalized_difference on float bands: np.divide with
\* where=denominator != 0 and out=zeros
calculate_normalized_difference(b1, b2) ==
    LET F(x, y) == IF FAdd(x, y) = Zero THEN Zero
                   ELSE FDiv(FSub(x, y), FAdd(x, y))
    IN  Map2(F, b1, b2)

\* the SAVI branch: ((nir - red) / (nir + red + L)) * (1 + L), nothing replaced
IC_savi(nir, red, L) ==
    LET F(x, y) == FMul(FDiv(FSub(x, y), FAdd(FAdd(x, y), L)), FAdd(One, L))
    IN  Map2(F, nir, red)

\* the roles an index reads, in the order the branch reads them
IC_roles(index_upper) ==
    IF index_upper = NDVI THEN <<"nir", "red">>
    ELSE IF index_upper = NDWI THEN <<"green", "nir">>
    ELSE IF index_upper = SAVI THEN <<"nir", "red">>
    ELSE <<"swir", "nir">>

\* the zero-based positions the branch of an index reads for a satellite type
IC_positions(satellite, index_upper) ==
    [k \in 1..2 |-> band_mapping[satellite][IC_roles(index_upper)[k]]]

-----------------------------------------------------------------------------
(* calculate_and_save_index.  A call is a record of its arguments and of   *)
(* the state of the files it touches:                                      *)
(*   matrix         [dtype, bands], bands a sequence of equally long grids *)
(*   index_type     the index name, a sequence of characters               *)
(*   satellite_type "landsat7", "landsat8", "landsat9" or None             *)
(*   B4             <<>> for None, or <<path>>: the reference raster       *)
(*   files          "ok", or what is wrong with the files: "not_a_file"    *)
(*                  (B4 is no file), "unreadable" (rasterio cannot open    *)
(*                  B4), "write_fails" (output_file cannot be written)     *)
(* Its outcome records the exception that reached the caller (raised), the *)
(* exception the method caught and printed (caught), the bands it read     *)
(* (operands), the grid it computed (index) and the grid it wrote to       *)
(* output_file (written).                                                  *)

B4Path == <<"B","4",".","T","I","F">>

Outcome(raised, caught, why, operands, index, written) ==
    [ raised |-> raised, caught |-> caught, why |-> why,
      has_index |-> index # <<>>, operands |-> operands, index |-> index,
      wrote |-> written # <<>>, written |-> written ]

\* index.astype("float32"); the model's values carry no rounding
AsFloat32(grid) == [dtype |-> "float32", grid |-> grid]

\* a variant of SO_calculate_and_save_index that writes output_file before it
\* looks at the B4 reference
SO_calculate_and_save_index_writes_first(c) ==
    LET m == c.matrix
        computes == c.index_type \in SupportedIndices
                    /\ Len(m.bands) >= SO_required(c.index_type)
        ops == IF computes THEN SO_operands(m.bands, c.index_type) ELSE <<>>
        idx == IF computes THEN SO_index(m, c.index_type) ELSE <<>>
    IN  IF c.index_type \notin SupportedIndices
        THEN Outcome(None, "ValueError", "Unsupported index type", <<>>, <<>>, <<>>)
        ELSE IF Len(m.bands) < SO_required(c.index_type)
        THEN Outcome(None, "ValueError", "too few bands", <<>>, <<>>, <<>>)
        ELSE IF c.files = "write_fails"
        THEN Outcome(None, "Exception", "Error saving index", ops, idx, <<>>)
        ELSE IF c.B4 = <<>> \/ c.files = "not_a_file"
        THEN Outcome(None, "FileNotFoundError", "B4 reference file", ops, idx,
                     << AsFloat32(idx) >>)
        ELSE IF c.files = "unreadable"
        THEN Outcome(None, "Exception", "cannot open B4", ops, idx, << AsFloat32(idx) >>)
        ELSE Outcome(None, None, None, ops, idx, << AsFloat32(idx) >>)

\* SceneOperations.calculate_and_save_index: every exception is caught and
\* printed, the method returns None
SO_calculate_and_save_index(c) ==
    LET m == c.matrix
        computes == c.index_type \in SupportedIndices
                    /\ Len(m.bands) >= SO_required(c.index_type)
        ops == IF computes THEN SO_operands(m.bands, c.index_type) ELSE <<>>
        idx == IF computes THEN SO_index(m, c.index_type) ELSE <<>>
    IN  IF c.index_type \notin SupportedIndices
        THEN Outcome(None, "ValueError", "Unsupported index type", <<>>, <<>>, <<>>)
        ELSE IF Len(m.bands) < SO_required(c.index_type)
        THEN Outcome(None, "ValueError", "too few bands", <<>>, <<>>, <<>>)
        ELSE IF c.B4 = <<>> \/ c.files = "not_a_file"
        THEN Outcome(None, "FileNotFoundError", "B4 reference file", ops, idx, <<>>)
        ELSE IF c.files = "unreadable"
        THEN Outcome(None, "Exception", "cannot open B4", ops, idx, <<>>)
        ELSE IF c.files = "write_fails"
        THEN Outcome(None, "Exception", "Error saving index", ops, idx, <<>>)
        ELSE Outcome(None, None, None, ops, idx, << AsFloat32(idx) >>)

\* what calculate_and_save_index prints for an index, given the outcome o
\* of the call: "Calculating <index>", the line of calculate_<index> when it
\* fails (a ValueError for too few bands, another exception for a matrix
\* that is None), then the exception caught or "<index> index saved"
IndexPrinted(index, o) ==
    << [kind |-> "Calculating", about |-> index] >>
    \o (IF o.caught = "ValueError" /\ o.why = "too few bands"
        THEN << [kind |-> "ValueError in calculate", about |-> index] >>
        ELSE IF o.caught = "AttributeError"
        THEN << [kind |-> "Unexpected error in calculate", about |-> index] >>
        ELSE <<>>)
    \o (IF o.caught # None
        THEN << [kind |-> o.caught, about |-> index] >>
        ELSE << [kind |-> "index saved", about |-> index] >>)

\* what SceneOperations.calculate_and_save_index prints
SO_calculate_printed(c) ==
    IndexPrinted(c.index_type, SO_calculate_and_save_index(c))

\* IndexCalculator.calculate_and_save_index: nothing is caught
IC_calculate_and_save_index(c) ==
    LET m == c.matrix
        up == Upper(c.index_type)
        known == c.satellite_type \in DOMAIN band_mapping /\ up \in SupportedIndices
        pos == IF known THEN IC_positions(c.satellite_type, up) ELSE <<>>
        inrange == known /\ \A k \in 1..2 : pos[k] < Len(m.bands)
        ops == IF inrange THEN [k \in 1..2 |-> m.bands[pos[k] + 1]] ELSE <<>>
        idx == IF ~inrange THEN <<>>
               ELSE IF up = SAVI THEN IC_savi(ops[1], ops[2], SAVI_L)
               ELSE calculate_normalized_difference(ops[1], ops[2])
    IN  IF c.satellite_type \notin DOMAIN band_mapping
        THEN Outcome("ValueError", None, "Unsupported satellite type", <<>>, <<>>, <<>>)
        ELSE IF up \notin SupportedIndices
        THEN Outcome("ValueError", None, "Unsupported index type", <<>>, <<>>, <<>>)
        ELSE IF ~inrange
        THEN Outcome("IndexError", None, "index out of bounds", <<>>, <<>>, <<>>)
        ELSE IF c.B4 = <<>>
        THEN Outcome("TypeError", None, "invalid path", ops, idx, <<>>)
        ELSE IF c.files \in {"not_a_file", "unreadable"}
        THEN Outcome("RasterioIOError", None, "cannot open reference", ops, idx, <<>>)
        ELSE IF c.files = "write_fails"
        THEN Outcome("RasterioIOError", None, "cannot write output", ops, idx, <<>>)
        ELSE Outcome(None, None, None, ops, idx, << AsFloat32(idx) >>)

\* helper_functions.calculate_normalized_difference on two bands of one
\* dtype: np.divide cannot write its float result into the uint16 array
\* out=np.zeros_like(denominator)
helper_normalized_difference(dtype, b1, b2) ==
    IF dtype = "uint16"
    THEN Outcome("TypeError", None, "cannot cast divide output", <<b1, b2>>, <<>>, <<>>)
    ELSE Outcome(None, None, None, <<b1, b2>>,
                 calculate_normalized_difference(b1, b2), <<>>)

-----------------------------------------------------------------------------
(* Specification SpecIndex: one call of calculate_and_save_index.          *)

\* pixel values of the first pixel of a band
FloatValues == { <<-1, 2>>, <<0, 1>>, <<1, 2>> }
U16Values == { <<10, 1>>, <<30, 1>>, <<65526, 1>> }

ValuesOf(dtype) == IF dtype = "uint16" THEN U16Values ELSE FloatValues

\* the other pixels of band k (matrix[k - 1]): a second pixel with
\* matrix[3] = 0.2, matrix[4] = 0.8 (float) or 10, 30 (uint16), and a third
\* pixel that is 0.3 (float) or 0 (uint16) in every band
RestOf(dtype, k) ==
    IF dtype = "uint16"
    THEN << <<(IF k = 4 THEN 10 ELSE IF k = 5 THEN 30 ELSE k), 1>>, <<0, 1>> >>
    ELSE << (IF k = 4 THEN <<1, 5>> ELSE IF k = 5 THEN <<4, 5>> ELSE Frac(k, 10)),
            <<3, 10>> >>

\* the bands whose first pixel varies: matrix[1] .. matrix[5]
Varying == 2..6

\* the band stacks of one dtype: 1 to MaxBands bands of three pixels each
StacksOf(dt, firsts) ==
    { [ dtype |-> dt,
        bands |-> [k \in 1..n |->
                     << IF k \in Varying THEN v[k] ELSE <<1, 1>> >> \o RestOf(dt, k)] ] :
        v \in firsts, n \in 1..MaxBands }

DTypes == {"float64", "uint16"}

\* every choice of the first pixels
Stacks == UNION { StacksOf(dt, [Varying -> ValuesOf(dt)]) : dt \in DTypes }

\* the stacks whose varying first pixels are all equal
PlainStacks ==
    UNION { StacksOf(dt, { [k \in Varying |-> x] : x \in ValuesOf(dt) }) : dt \in DTypes }

\* the index names: the four supported ones, one in lower case, an unknown one
IndexNames == SupportedIndices \cup { <<"n","d","v","i">>, <<"E","V","I">> }

SatelliteTypes == {"landsat7", "landsat8", "landsat9", None}

FileStates == {"ok", "not_a_file", "unreadable", "write_fails"}

\* the calls: every stack with good files, and the plain stacks with every
\* state of the files
Calls ==
    { [matrix |-> m, index_type |-> i, satellite_type |-> t, B4 |-> <<B4Path>>,
       files |-> "ok"] : m \in Stacks, i \in IndexNames, t \in SatelliteTypes }
    \cup
    { [matrix |-> m, index_type |-> i, satellite_type |-> t, B4 |-> b,
       files |-> f] : m \in PlainStacks, i \in IndexNames, t \in SatelliteTypes,
                      b \in {<<>>, <<B4Path>>}, f \in FileStates }

InitIndex ==
    /\ op = "init"
    /\ file_name = <<>>
    /\ satellite_type = "unset"
    /\ scene_id = <<>>
    /\ input_folder = <<>>
    /\ listing = <<>>
    /\ folder_exists = TRUE
    /\ scenes = None
    /\ printed = <<>>
    /\ call \in Calls
    /\ outcome = NoOutcome

\* SceneOperations.calculate_and_save_index(matrix, index, satellite, output_file, B4)
SOCalculateAndSaveIndex ==
    /\ op' = "SO_calculate_and_save_index"
    /\ outcome' = SO_calculate_and_save_index(call)
    /\ printed' = SO_calculate_printed(call)
    /\ UNCHANGED <<file_name, satellite_type, scene_id, input_folder, listing,
                   folder_exists, scenes, call>>

\* IndexCalculator.calculate_and_save_index(matrix, index, satellite, output_path, reference)
ICCalculateAndSaveIndex ==
    /\ op' = "IC_calculate_and_save_index"
    /\ outcome' = IC_calculate_and_save_index(call)
    /\ printed' = <<>>
    /\ UNCHANGED <<file_name, satellite_type, scene_id, input_folder, listing,
                   folder_exists, scenes, call>>

\* helper_functions.calculate_normalized_difference(matrix[4], matrix[3])
HelperNormalizedDifference ==
    /\ Len(call.matrix.bands) >= 5
    /\ op' = "calculate_normalized_difference"
    /\ outcome' = helper_normalized_difference(call.matrix.dtype,
                      call.matrix.bands[5], call.matrix.bands[4])
    /\ printed' = <<>>
    /\ UNCHANGED <<file_name, satellite_type, scene_id, input_folder, listing,
                   folder_exists, scenes, call>>

NextIndex ==
    SOCalculateAndSaveIndex \/ ICCalculateAndSaveIndex \/ HelperNormalizedDifference

SpecIndex == InitIndex /\ [][NextIndex]_vars

\* a call whose index name, stack size and files are all valid
ValidCall(c) ==
    /\ c.index_type \in SupportedIndices
    /\ Len(c.matrix.bands) >= 6
    /\ c.B4 # <<>>
    /\ c.files = "ok"

\* Specification SpecValidCalls: the calls of SpecIndex that are valid in
\* everything but, possibly, the satellite type
InitValidCalls == InitIndex /\ ValidCall(call)

SpecValidCalls == InitValidCalls /\ [][NextIndex]_vars

-----------------------------------------------------------------------------
(* Specification SpecSavi: one call of SceneOperations.calculate_savi with *)
(* a soil adjustment factor supplied by the caller.                        *)

L_in_range_strict(L) == IsFinite(L) /\ 0 < L[1] /\ L[1] < L[2]

\* 0 <= L <= 1 (false when L is NaN)
L_in_range(L) == IsFinite(L) /\ 0 <= L[1] /\ L[1] <= L[2]

\* SceneOperations.calculate_savi(matrix, L): both ValueErrors are printed and
\* re-raised
SO_calculate_savi(c) ==
    LET m == c.matrix
    IN  IF Len(m.bands) < 5
        THEN Outcome("ValueError", None, "too few bands", <<>>, <<>>, <<>>)
        ELSE IF ~L_in_range(c.L)
        THEN Outcome("ValueError", None, "L out of range", <<>>, <<>>, <<>>)
        ELSE Outcome(None, None, None, <<m.bands[5], m.bands[4]>>,
                     SO_savi(m.dtype, m.bands[5], m.bands[4], c.L), <<>>)

\* what calculate_savi prints
SO_savi_printed(c) ==
    LET o == SO_calculate_savi(c)
    IN  IF o.raised = None THEN <<>>
        ELSE << [kind |-> "ValueError in calculate_savi", about |-> SAVI] >>

\* soil adjustment factors: inside, on the bounds of, and outside [0, 1]
LValues ==
    { <<-1, 2>>, <<-1, 100>>, <<0, 1>>, <<1, 2>>, <<1, 1>>, <<101, 100>>,
      <<3, 2>>, <<1, 0>>, NaN }

SaviCalls == { [matrix |-> m, L |-> l] : m \in PlainStacks, l \in LValues }

InitSavi ==
    /\ op = "init"
    /\ file_name = <<>>
    /\ satellite_type = "unset"
    /\ scene_id = <<>>
    /\ input_folder = <<>>
    /\ listing = <<>>
    /\ folder_exists = TRUE
    /\ scenes = None
    /\ printed = <<>>
    /\ call \in SaviCalls
    /\ outcome = NoOutcome

\* SceneOperations.calculate_savi(matrix, L)
CalculateSavi ==
    /\ op' = "calculate_savi"
    /\ outcome' = SO_calculate_savi(call)
    /\ printed' = SO_savi_printed(call)
    /\ UNCHANGED <<file_name, satellite_type, scene_id, input_folder, listing,
                   folder_exists, scenes, call>>

NextSavi == CalculateSavi

SpecSavi == InitSavi /\ [][NextSavi]_vars

-----------------------------------------------------------------------------
(* create_band_matrices.  The disk is a sequence parallel to the listing:  *)
(* disk[i] is what rasterio finds in the file listing[i], <<>> when        *)
(* rasterio.open fails on it and <<[dtype, grid]>> (band 1 of the raster)  *)
(* otherwise.  The outcome records the paths the filter selected, the      *)
(* paths that were read, and the value returned (<<>> for None, or         *)
(* <<matrix>>).                                                            *)

SR_B == <<"_","s","r","_","b">>

\* the content of the file at a path made by group_files_by_scene
DiskAt(folder, names, disk, path) ==
    disk[CHOOSE i \in 1..Len(names) : PathJoin(folder, names[i]) = path]

\* "_sr_b" in file_path.lower()
IsBandFile(file_path) == Contains(SR_B, Lower(file_path))

\* the files of the scene that pass the filter, in the order of the list
SelectedFiles(scene_files) ==
    LET Test(p) == IsBandFile(p) IN SelectSeq(scene_files, Test)

\* the selected files that rasterio could open and read, in the same order
ReadFiles(folder, names, disk, scene_files) ==
    LET Test(p) == DiskAt(folder, names, disk, p) # <<>>
    IN  SelectSeq(SelectedFiles(scene_files), Test)

\* band_arrays: src.read(1) of every file read
BandArrays(folder, names, disk, scene_files) ==
    LET r == ReadFiles(folder, names, disk, scene_files)
    IN  [i \in 1..Len(r) |-> DiskAt(folder, names, disk, r[i])[1]]

\* np.stack(band_arrays, axis=0) needs arrays of one shape
SameShape(arrays) ==
    \A i, j \in 1..Len(arrays) : Len(arrays[i].grid) = Len(arrays[j].grid)

\* np.stack(band_arrays, axis=0): the dtype is the common dtype of the
\* arrays: uint16 when all are uint16, float64 when one is float64, float32
\* otherwise (float32 arrays, alone or with uint16 arrays)
Stack(arrays) ==
    [ dtype |-> IF \A i \in 1..Len(arrays) : arrays[i].dtype = "uint16"
                THEN "uint16"
                ELSE IF \E i \in 1..Len(arrays) : arrays[i].dtype = "float64"
                THEN "float64"
                ELSE "float32",
      bands |-> [i \in 1..Len(arrays) |-> arrays[i].grid] ]

StackOutcome(raised, caught, why, selected, read, returned) ==
    [ raised |-> raised, caught |-> caught, why |-> why,
      selected |-> selected, read |-> read,
      has_stack |-> returned # <<>>, returned |-> returned ]

\* the part of create_band_matrices after the scene's files are known
StackFiles(folder, names, disk, scene_files, swallow) ==
    LET sel == SelectedFiles(scene_files)
        rd == ReadFiles(folder, names, disk, scene_files)
        arrays == BandArrays(folder, names, disk, scene_files)
        Fail(why) == IF swallow
                     THEN StackOutcome(None, "ValueError", why, sel, rd, <<>>)
                     ELSE StackOutcome("ValueError", None, why, sel, rd, <<>>)
    IN  IF arrays = <<>> THEN Fail("No valid band files")
        ELSE IF ~SameShape(arrays) THEN Fail("arrays must have the same shape")
        ELSE StackOutcome(None, None, None, sel, rd, << Stack(arrays) >>)

\* SceneOperations.create_band_matrices(scene_id): every exception is caught
\* and printed, and the method then returns None
SO_create_band_matrices(folder, exists, names, disk, sid) ==
    LET grouped == group_files_by_scene(folder, exists, names)
        scene_files == IF grouped = None THEN <<>> ELSE ScenesGet(grouped, sid)
    IN  IF grouped = None
        THEN StackOutcome(None, "AttributeError", "no grouping", <<>>, <<>>, <<>>)
        ELSE IF scene_files = <<>>
        THEN StackOutcome(None, "FileNotFoundError", "Scene ID not found",
                          <<>>, <<>>, <<>>)
        ELSE StackFiles(folder, names, disk, scene_files, TRUE)

\* SceneProcessor.create_band_matrices(scene_id): nothing is caught but the
\* failure to read one file
SP_create_band_matrices(folder, exists, names, disk, sid) ==
    IF ~exists
    THEN StackOutcome("FileNotFoundError", None, "no input folder", <<>>, <<>>, <<>>)
    ELSE StackFiles(folder, names, disk,
                    ScenesGet(SP_group_files_by_scene(folder, names), sid), FALSE)

\* what create_band_matrices prints after the grouping: one line per file
\* that could not be read ("RasterioIOError: Could not read file" in
\* SceneOperations, "Error reading band file" in SceneProcessor), then, in
\* SceneOperations (verbose), the exception caught or "Band matrix created
\* for scene".  The lines of the missing scene and of the scene without
\* band files name the scene, the others do not.
StackPrinted(folder, names, disk, sid, o, verbose) ==
    LET Test(p) == DiskAt(folder, names, disk, p) = <<>>
        bad == SelectSeq(o.selected, Test)
    IN  [i \in 1..Len(bad) |->
            [kind |-> IF verbose THEN "Could not read file"
                      ELSE "Error reading band file",
             about |-> bad[i]]]
        \o (IF ~verbose THEN <<>>
            ELSE IF o.caught # None
            THEN << [kind |-> o.caught,
                     about |-> IF o.why \in {"Scene ID not found", "No valid band files"}
                               THEN sid ELSE <<>>] >>
            ELSE << [kind |-> "Band matrix created", about |-> sid] >>)

-----------------------------------------------------------------------------
(* Specification SpecStack: one input folder, the rasters in it, and one   *)
(* call of create_band_matrices.                                           *)

\* the scene of the LC08 files and the scene of the LE07 file
SceneA == <<"L","C","0","8">> \o Mid(6, <<"a">>)
SceneB == <<"L","e","0","7">> \o Mid(6, <<"b">>)

FileA4 == SceneA \o <<"_","S","R","_","B","4">> \o <<".","T","I","F">>
FileA5 == SceneA \o <<"_","s","r","_","b","5">> \o <<".","T","I","F">>
FileAQ == SceneA \o <<"_","Q","A">> \o <<".","T","I","F">>
FileB4 == SceneB \o <<"_","S","R","_","B","4">> \o <<".","T","I","F">>

\* the names a modelled folder may hold: two band files and a quality raster
\* of one LC08 scene, and a band file of an LE07 scene
StackNames == {FileA4, FileA5, FileAQ, FileB4}

\* band 1 of a raster: uint16 grids of two pixels, all 10 or all 30, and a
\* raster of another shape
Raster10 == [dtype |-> "uint16", grid |-> << <<10, 1>>, <<10, 1>> >>]
Raster30 == [dtype |-> "uint16", grid |-> << <<30, 1>>, <<30, 1>> >>]
RasterOdd == [dtype |-> "uint16", grid |-> << <<7, 1>> >>]

\* what a file may hold: nothing rasterio can read (<<>>), or a raster
ContentsOf(name) ==
    IF name = FileA5 THEN { <<>>, <<Raster30>>, <<Raster10>> }
    ELSE IF name = FileAQ THEN { <<>>, <<Raster10>>, <<RasterOdd>> }
    ELSE { <<>>, <<Raster10>> }

\* the disks of a listing
Disks(names) ==
    { d \in [1..Len(names) -> UNION { ContentsOf(n) : n \in StackNames }] :
        \A i \in 1..Len(names) : d[i] \in ContentsOf(names[i]) }

RECURSIVE StackListingsOfLen(_)
StackListingsOfLen(n) ==
    IF n = 0 THEN { <<>> }
    ELSE { Append(l, f) : l \in StackListingsOfLen(n - 1), f \in StackNames }

StackListings ==
    { l \in UNION { StackListingsOfLen(n) : n \in 0..MaxFiles } : NoRepeat(l) }

\* the scene ids asked for: the two scenes and one that no file belongs to
RequestedScenes == { SceneA, SceneB, <<"L","C","0","9">> }

InitStack ==
    /\ op = "init"
    /\ file_name = <<>>
    /\ satellite_type = "unset"
    /\ input_folder \in Folders
    /\ listing \in StackListings
    /\ folder_exists \in BOOLEAN
    /\ (~folder_exists => listing = <<>>)
    /\ scene_id \in RequestedScenes
    /\ scenes = None
    /\ printed = <<>>
    /\ \E d \in Disks(listing) : call = [disk |-> d]
    /\ outcome = NoOutcome

\* SceneOperations(input_folder).create_band_matrices(scene_id)
SOCreateBandMatrices ==
    /\ op' = "SO_create_band_matrices"
    /\ outcome' = SO_create_band_matrices(input_folder, folder_exists, listing,
                                          call.disk, scene_id)
    /\ printed' = group_printed(input_folder, folder_exists, listing)
                  \o StackPrinted(input_folder, listing, call.disk, scene_id,
                                  outcome', TRUE)
    /\ UNCHANGED <<file_name, satellite_type, scene_id, input_folder, listing,
                   folder_exists, scenes, call>>

\* SceneProcessor(input_folder).create_band_matrices(scene_id)
SPCreateBandMatrices ==
    /\ op' = "SP_create_band_matrices"
    /\ outcome' = SP_create_band_matrices(input_folder, folder_exists, listing,
                                          call.disk, scene_id)
    /\ printed' = IF ~folder_exists THEN <<>>
                  ELSE SP_group_printed(listing)
                       \o StackPrinted(input_folder, listing, call.disk, scene_id,
                                       outcome', FALSE)
    /\ UNCHANGED <<file_name, satellite_type, scene_id, input_folder, listing,
                   folder_exists, scenes, call>>

\* the B4 reference of indice_calculator: the first file of the scene with
\* "_SR_B4" in file.upper(), <<>> when there is none
FindB4(scene_files) ==
    LET Test(p) == Contains(<<"_","S","R","_","B","4">>, Upper(p))
        found == SelectSeq(scene_files, Test)
    IN  IF found = <<>> THEN <<>> ELSE << found[1] >>

\* the arguments indice_calculator passes to calculate_and_save_index for the
\* index NDVI: the stack, the satellite type detected from B4, and B4
IndexCallOf(folder, names, disk, matrix, B4) ==
    [ matrix |-> matrix, index_type |-> NDVI,
      satellite_type |-> detect_satellite_type(B4[1]),
      B4 |-> B4,
      files |-> IF DiskAt(folder, names, disk, B4[1]) = <<>>
                THEN "unreadable" ELSE "ok" ]

\* os.path.join(os.path.join(output_folder, scene), f"{index}.tif"), below
\* the output folder
OutputFile(sid, index) == sid \o <<"/">> \o index \o <<".","t","i","f">>

\* indice_calculator(out, "NDVI", scene_id) for a string scene_id.  Without
\* input folder the grouping is None and the test "scene not in all_scenes"
\* raises TypeError; a scene that is not in the grouping is skipped before
\* create_band_matrices is called.  For a scene of the grouping the stack is
\* built, B4 is looked up, and the index is computed from the stack.  The
\* outcome holds the exception raised to the caller (raised), the outcome of
\* create_band_matrices (stack), of SceneOperations.calculate_and_save_index
\* (so) and, for the same arguments, of
\* IndexCalculator.calculate_and_save_index (ic); NoOutcome stands for a
\* call that was not made.
StackThenIndex(folder, exists, names, disk, sid) ==
    LET grouped == group_files_by_scene(folder, exists, names)
        st == SO_create_band_matrices(folder, exists, names, disk, sid)
        B4 == FindB4(ScenesGet(grouped, sid))
        nothing == [raised |-> None, stack |-> NoOutcome, B4 |-> <<>>,
                    so |-> NoOutcome, ic |-> NoOutcome]
    IN  IF grouped = None THEN [nothing EXCEPT !.raised = "TypeError"]
        ELSE IF ItemIndex(grouped, sid) = 0 THEN nothing
        ELSE IF B4 = <<>> THEN [nothing EXCEPT !.stack = st]
        ELSE IF ~st.has_stack
        THEN [ raised |-> None, stack |-> st, B4 |-> B4,
               so |-> Outcome(None, "AttributeError", "matrix is None", <<>>, <<>>, <<>>),
               ic |-> Outcome("TypeError", None, "matrix is None", <<>>, <<>>, <<>>) ]
        ELSE LET c == IndexCallOf(folder, names, disk, st.returned[1], B4)
             IN  [ raised |-> None, stack |-> st, B4 |-> B4,
                   so |-> SO_calculate_and_save_index(c),
                   ic |-> IC_calculate_and_save_index(c) ]

\* what indice_calculator(out, "NDVI", scene_id) prints, o being its outcome:
\* the lines of the grouping, then nothing more when the call raised; else
\* the skip of the scene, or "Processing scene", the lines of
\* create_band_matrices (which groups the folder again), the missing
\* reference or the lines of calculate_and_save_index and "Saved NDVI for
\* scene"; at the end "Index calculation complete."
StackThenIndexPrinted(folder, exists, names, disk, sid, o) ==
    group_printed(folder, exists, names)
    \o (IF o.raised # None THEN <<>>
        ELSE (IF o.stack = NoOutcome
              THEN << [kind |-> "Scene ID not found", about |-> sid] >>
              ELSE << [kind |-> "Processing scene", about |-> sid] >>
                   \o group_printed(folder, exists, names)
                   \o StackPrinted(folder, names, disk, sid, o.stack, TRUE)
                   \o (IF o.B4 = <<>>
                       THEN << [kind |-> "B4 reference file not found",
                                about |-> sid] >>
                       ELSE IndexPrinted(NDVI, o.so)
                            \o << [kind |-> "Saved",
                                    about |-> OutputFile(sid, NDVI)] >>))
             \o << [kind |-> "Index calculation complete", about |-> <<>>] >>)

\* SatelliteDataProcessor(input_folder).indice_calculator(out, "NDVI", scene_id)
BuildStackAndIndex ==
    /\ op' = "stack_then_index"
    /\ outcome' = StackThenIndex(input_folder, folder_exists, listing,
                                 call.disk, scene_id)
    /\ printed' = StackThenIndexPrinted(input_folder, folder_exists, listing,
                                        call.disk, scene_id, outcome')
    /\ UNCHANGED <<file_name, satellite_type, scene_id, input_folder, listing,
                   folder_exists, scenes, call>>

NextStack == SOCreateBandMatrices \/ SPCreateBandMatrices \/ BuildStackAndIndex

SpecStack == InitStack /\ [][NextStack]_vars

-----------------------------------------------------------------------------
(* reproject_scene.  Here disk[i] describes the file listing[i] as         *)
(* [src, writable]: src is <<>> when rasterio.open fails on the file and   *)
(* <<meta>> otherwise, meta being src.meta (crs, dtype, count, nodata,     *)
(* width, height, transform); writable tells whether the output file of    *)
(* that source can be opened for writing.  A CRS is a string, or None for  *)
(* a raster without one.                                                   *)

\* the CRS strings rasterio can parse
ValidCRS == {"EPSG:32633", "EPSG:4326"}

\* file_path.lower().endswith(('.tif', '.geotiff'))
IsRasterPath(file_path) ==
    \/ EndsWith(Lower(file_path), <<".","t","i","f">>)
    \/ EndsWith(Lower(file_path), <<".","g","e","o","t","i","f","f">>)

\* calculate_default_transform(src.crs, target_crs, width, height, *bounds)
\* succeeds when both CRS can be parsed
TransformDefined(src_crs, target_crs) ==
    src_crs \in ValidCRS /\ target_crs \in ValidCRS

\* its result: the grid is kept when the CRS does not change; otherwise the
\* transform and the size are those of the target grid (the model names the
\* transform after the CRS and takes a grid one pixel larger each way)
DefaultTransform(meta, target_crs) ==
    IF meta.crs = target_crs
    THEN [transform |-> meta.transform, width |-> meta.width, height |-> meta.height]
    ELSE [transform |-> <<"grid of", target_crs>>,
          width |-> meta.width + 1, height |-> meta.height + 1]

\* a variant of ReprojectedMeta that writes a single band
ReprojectedMeta_one_band(meta, target_crs) ==
    LET t == DefaultTransform(meta, target_crs)
    IN  [meta EXCEPT !.crs = target_crs, !.transform = t.transform,
                     !.width = t.width, !.height = t.height, !.count = 1]

\* meta = src.meta.copy(); meta.update(crs, transform, width, height)
ReprojectedMeta(meta, target_crs) ==
    LET t == DefaultTransform(meta, target_crs)
    IN  [meta EXCEPT !.crs = target_crs, !.transform = t.transform,
                     !.width = t.width, !.height = t.height]

\* one pass of the loop body for a raster file: the file is opened, the
\* transform computed, the output opened with the new meta, and the bands
\* 1..count reprojected into it
ReprojectFile(file_path, f, target_crs) ==
    IF f.src = <<>>
    THEN [path |-> file_path, error |-> "RasterioIOError", out |-> <<>>]
    ELSE IF ~TransformDefined(f.src[1].crs, target_crs)
    THEN [path |-> file_path, error |-> "CRSError", out |-> <<>>]
    ELSE IF ~f.writable
    THEN [path |-> file_path, error |-> "write error", out |-> <<>>]
    ELSE LET meta == ReprojectedMeta(f.src[1], target_crs)
         IN  [path |-> file_path, error |-> None,
              out |-> << [meta |-> meta,
                          bands |-> [i \in 1..meta.count |-> i]] >>]

\* a variant of ReprojectLoop that gives up at the first file that fails
RECURSIVE ReprojectLoop_stops(_, _, _, _, _)
ReprojectLoop_stops(folder, names, disk, scene_files, target_crs) ==
    IF scene_files = <<>> THEN <<>>
    ELSE LET file_path == Head(scene_files)
             rest == Tail(scene_files)
             r == ReprojectFile(file_path, DiskAt(folder, names, disk, file_path),
                                target_crs)
         IN  IF ~IsRasterPath(file_path)
             THEN ReprojectLoop_stops(folder, names, disk, rest, target_crs)
             ELSE IF r.error # None THEN << r >>
             ELSE << r >> \o ReprojectLoop_stops(folder, names, disk, rest, target_crs)

\* the loop over scene_files: a file that is no raster is passed over, every
\* exception of a pass is caught and printed, and the loop goes on
RECURSIVE ReprojectLoop(_, _, _, _, _)
ReprojectLoop(folder, names, disk, scene_files, target_crs) ==
    IF scene_files = <<>> THEN <<>>
    ELSE LET file_path == Head(scene_files)
             rest == Tail(scene_files)
         IN  IF ~IsRasterPath(file_path)
             THEN ReprojectLoop(folder, names, disk, rest, target_crs)
             ELSE << ReprojectFile(file_path,
                                   DiskAt(folder, names, disk, file_path), target_crs) >>
                  \o ReprojectLoop(folder, names, disk, rest, target_crs)

ReprojectOutcome(raised, caught, why, files, complete) ==
    [ raised |-> raised, caught |-> caught, why |-> why,
      files |-> files, complete |-> complete ]

\* SceneOperations.reproject_scene(scene_id, target_crs, output_folder)
SO_reproject_scene(folder, exists, names, disk, sid, target_crs) ==
    LET grouped == group_files_by_scene(folder, exists, names)
    IN  IF grouped = None
        THEN ReprojectOutcome(None, "AttributeError", "no grouping", <<>>, FALSE)
        ELSE IF ScenesGet(grouped, sid) = <<>>
        THEN ReprojectOutcome(None, None, "No files found", <<>>, FALSE)
        ELSE ReprojectOutcome(None, None, None,
                 ReprojectLoop(folder, names, disk, ScenesGet(grouped, sid), target_crs),
                 TRUE)

\* SceneProcessor.reproject_scene(scene_id, target_crs, output_folder)
SP_reproject_scene(folder, exists, names, disk, sid, target_crs) ==
    IF ~exists
    THEN ReprojectOutcome("FileNotFoundError", None, "no input folder", <<>>, FALSE)
    ELSE LET scene_files == ScenesGet(SP_group_files_by_scene(folder, names), sid)
         IN  IF scene_files = <<>>
             THEN ReprojectOutcome(None, None, "No files found", <<>>, FALSE)
             ELSE ReprojectOutcome(None, None, None,
                      ReprojectLoop(folder, names, disk, scene_files, target_crs), TRUE)

\* what the loop of reproject_scene prints for the raster files: in
\* SceneOperations (verbose) "Processing file" once the source is open and
\* "File reprojected and saved" after the write; in both classes the line of
\* the exception caught
RECURSIVE ReprojectLoopPrinted(_, _)
ReprojectLoopPrinted(files, verbose) ==
    IF files = <<>> THEN <<>>
    ELSE LET r == Head(files)
         IN  (IF verbose /\ r.error # "RasterioIOError"
              THEN << [kind |-> "Processing file", about |-> r.path] >>
              ELSE <<>>)
             \o (IF r.error # None THEN << [kind |-> r.error, about |-> r.path] >>
                 ELSE IF verbose
                 THEN << [kind |-> "File reprojected", about |-> r.path] >>
                 ELSE <<>>)
             \o ReprojectLoopPrinted(Tail(files), verbose)

\* everything SceneOperations.reproject_scene prints, o being its outcome
SO_reproject_printed(folder, exists, names, sid, o) ==
    << [kind |-> "Reprojecting scene", about |-> sid] >>
    \o group_printed(folder, exists, names)
    \o (IF o.caught # None THEN << [kind |-> o.caught, about |-> sid] >>
        ELSE IF ~o.complete THEN << [kind |-> "No files found", about |-> sid] >>
        ELSE ReprojectLoopPrinted(o.files, TRUE)
             \o << [kind |-> "Reprojection complete", about |-> sid] >>)

\* everything SceneProcessor.reproject_scene prints, o being its outcome
SP_reproject_printed(exists, names, sid, o) ==
    IF ~exists THEN <<>>
    ELSE SP_group_printed(names)
         \o (IF ~o.complete THEN << [kind |-> "No files found", about |-> sid] >>
             ELSE ReprojectLoopPrinted(o.files, FALSE)
                  \o << [kind |-> "Reprojection complete", about |-> sid] >>)

\* the scene ids a batch operation goes through: every key of the grouping
\* when scene_id is None ("all"), the list [scene_id] for a string ("one"),
\* the list itself otherwise
RequestedIds(grouped, request) ==
    IF request.kind = "all" THEN ScenesKeys(grouped) ELSE request.ids

\* the loop of SatelliteDataProcessor.reproject over the requested scenes
RECURSIVE ReprojectScenes(_, _, _, _, _)
ReprojectScenes(folder, names, disk, ids, target_crs) ==
    IF ids = <<>> THEN <<>>
    ELSE LET sid == Head(ids)
             grouped == group_files_by_scene(folder, TRUE, names)
         IN  (IF ItemIndex(grouped, sid) = 0
              THEN << [scene |-> sid, skipped |-> TRUE, result |-> NoOutcome] >>
              ELSE << [scene |-> sid, skipped |-> FALSE,
                       result |-> SO_reproject_scene(folder, TRUE, names, disk,
                                                     sid, target_crs)] >>)
             \o ReprojectScenes(folder, names, disk, Tail(ids), target_crs)

BatchOutcome(raised, why, batch, complete) ==
    [raised |-> raised, why |-> why, batch |-> batch, complete |-> complete]

\* SatelliteDataProcessor.reproject(output_folder, scene_id, target_crs)
DP_reproject(folder, exists, names, disk, request, target_crs) ==
    LET grouped == group_files_by_scene(folder, exists, names)
    IN  IF target_crs = None
        THEN BatchOutcome("ValueError", "A target CRS must be specified", <<>>, FALSE)
        ELSE IF grouped = None /\ request.kind = "all"
        THEN BatchOutcome("AttributeError", "all_scenes is None", <<>>, FALSE)
        ELSE IF grouped = None /\ request.ids # <<>>
        THEN BatchOutcome("TypeError", "all_scenes is None", <<>>, FALSE)
        ELSE IF grouped = None
        THEN BatchOutcome(None, None, <<>>, TRUE)
        ELSE BatchOutcome(None, None,
                 ReprojectScenes(folder, names, disk,
                                 RequestedIds(grouped, request), target_crs),
                 TRUE)

\* what the loop of reproject prints: the skip of a scene that is not in the
\* grouping, or the lines of reproject_scene and "Reprojected scene <sid>
\* files saved"
RECURSIVE ReprojectScenesPrinted(_, _, _)
ReprojectScenesPrinted(folder, names, batch) ==
    IF batch = <<>> THEN <<>>
    ELSE LET r == Head(batch)
         IN  (IF r.skipped
              THEN << [kind |-> "Scene ID not found", about |-> r.scene] >>
              ELSE SO_reproject_printed(folder, TRUE, names, r.scene, r.result)
                   \o << [kind |-> "Reprojected scene", about |-> r.scene] >>)
             \o ReprojectScenesPrinted(folder, names, Tail(batch))

\* everything reproject prints, o being its outcome: nothing when the target
\* CRS is missing; else the lines of the grouping and, unless the call
\* raised, "No scene ID specified" for scene_id None, the lines of the loop
\* and "Reprojection process complete."
DP_reproject_printed(folder, exists, names, request, o) ==
    IF o.raised = "ValueError" THEN <<>>
    ELSE group_printed(folder, exists, names)
         \o (IF o.raised # None THEN <<>>
             ELSE (IF request.kind = "all"
                   THEN << [kind |-> "No scene ID specified", about |-> <<>>] >>
                   ELSE <<>>)
                  \o ReprojectScenesPrinted(folder, names, o.batch)
                  \o << [kind |-> "Reprojection process complete",
                          about |-> <<>>] >>)

-----------------------------------------------------------------------------
(* Specification SpecReproject: one input folder, its rasters, and one     *)
(* reprojection call.                                                      *)

\* a metadata file of the LC08 scene: no raster
FileAM == SceneA \o <<"_","M","T","L">> \o <<".","t","x","t">>

ReprojectNames == {FileA4, FileA5, FileAM, FileB4}

\* src.meta of the modelled rasters: a single-band uint16 raster, a two-band
\* float32 raster without nodata in another CRS, and a raster without CRS
MetaA ==
    [ driver |-> "GTiff", dtype |-> "uint16", nodata |-> <<0>>, count |-> 1,
      width |-> 2, height |-> 1, crs |-> "EPSG:4326",
      transform |-> <<"grid of", "EPSG:4326">> ]
MetaB ==
    [ driver |-> "GTiff", dtype |-> "float32", nodata |-> <<>>, count |-> 2,
      width |-> 3, height |-> 2, crs |-> "EPSG:32633",
      transform |-> <<"grid of", "EPSG:32633">> ]
MetaNoCRS == [MetaA EXCEPT !.crs = None]

Unreadable == [src |-> <<>>, writable |-> TRUE]

\* what the file of a name may be
FileStatesOf(name) ==
    IF name = FileA4
    THEN { Unreadable, [src |-> <<MetaA>>, writable |-> TRUE],
           [src |-> <<MetaNoCRS>>, writable |-> TRUE] }
    ELSE IF name = FileA5
    THEN { [src |-> <<MetaB>>, writable |-> TRUE],
           [src |-> <<MetaA>>, writable |-> FALSE] }
    ELSE IF name = FileB4
    THEN { Unreadable, [src |-> <<MetaA>>, writable |-> TRUE] }
    ELSE { Unreadable }

ReprojectDisks(names) ==
    { d \in [1..Len(names) -> UNION { FileStatesOf(n) : n \in ReprojectNames }] :
        \A i \in 1..Len(names) : d[i] \in FileStatesOf(names[i]) }

RECURSIVE ReprojectListingsOfLen(_)
ReprojectListingsOfLen(n) ==
    IF n = 0 THEN { <<>> }
    ELSE { Append(l, f) : l \in ReprojectListingsOfLen(n - 1), f \in ReprojectNames }

ReprojectListings ==
    { l \in UNION { ReprojectListingsOfLen(n) : n \in 0..MaxFiles } : NoRepeat(l) }

\* the target CRS of a call: none, a valid one, a string that is no CRS
TargetCRSs == { None, "EPSG:32633", "bogus" }

\* the scene_id argument of the batch call: the string scene_id, or, in the
\* calls that name the scene without files, also None and a list that starts
\* with that scene
Requests(sid) ==
    { [kind |-> "one", ids |-> <<sid>>] }
    \cup (IF sid = <<"L","C","0","9">>
          THEN { [kind |-> "all", ids |-> <<>>],
                 [kind |-> "list", ids |-> <<sid, SceneB, SceneA>>] }
          ELSE {})

InitReproject ==
    /\ op = "init"
    /\ file_name = <<>>
    /\ satellite_type = "unset"
    /\ input_folder = <<"i","n">>
    /\ listing \in ReprojectListings
    /\ folder_exists \in BOOLEAN
    /\ (~folder_exists => listing = <<>>)
    /\ scene_id \in RequestedScenes
    /\ scenes = None
    /\ printed = <<>>
    /\ \E d \in ReprojectDisks(listing), t \in TargetCRSs, r \in Requests(scene_id) :
          call = [disk |-> d, target_crs |-> t, request |-> r]
    /\ outcome = NoOutcome

\* SceneOperations(input_folder).reproject_scene(scene_id, target_crs, out)
SOReprojectScene ==
    /\ op' = "SO_reproject_scene"
    /\ outcome' = SO_reproject_scene(input_folder, folder_exists, listing,
                                     call.disk, scene_id, call.target_crs)
    /\ printed' = SO_reproject_printed(input_folder, folder_exists, listing,
                                       scene_id, outcome')
    /\ UNCHANGED <<file_name, satellite_type, scene_id, input_folder, listing,
                   folder_exists, scenes, call>>

\* SceneProcessor(input_folder).reproject_scene(scene_id, target_crs, out)
SPReprojectScene ==
    /\ op' = "SP_reproject_scene"
    /\ outcome' = SP_reproject_scene(input_folder, folder_exists, listing,
                                     call.disk, scene_id, call.target_crs)
    /\ printed' = SP_reproject_printed(folder_exists, listing, scene_id, outcome')
    /\ UNCHANGED <<file_name, satellite_type, scene_id, input_folder, listing,
                   folder_exists, scenes, call>>

\* SatelliteDataProcessor(input_folder).reproject(out, scene_id, target_crs)
DPReproject ==
    /\ op' = "DP_reproject"
    /\ outcome' = DP_reproject(input_folder, folder_exists, listing, call.disk,
                               call.request, call.target_crs)
    /\ printed' = DP_reproject_printed(input_folder, folder_exists, listing,
                                       call.request, outcome')
    /\ UNCHANGED <<file_name, satellite_type, scene_id, input_folder, listing,
                   folder_exists, scenes, call>>

NextReproject == SOReprojectScene \/ SPReprojectScene \/ DPReproject

SpecReproject == InitReproject /\ [][NextReproject]_vars

-----------------------------------------------------------------------------
(* merge_bands.  Here disk[i] is <<>> when rasterio.open fails on the file *)
(* listing[i] and <<[meta, grid]>> otherwise: src.meta and src.read(1).    *)
(* The band filter is <<>> for None and <<tokens>> for a list of tokens.   *)

\* os.path.basename(f)
Basename(file_path) ==
    LET parts == Split(file_path, "/") IN parts[Len(parts)]

\* [f for f in raster_files if band in os.path.basename(f)]
FilesWithToken(raster_files, band) ==
    LET Test(f) == Contains(band, Basename(f)) IN SelectSeq(raster_files, Test)

\* the loop over bands that extends filtered_files
RECURSIVE FilteredFiles(_, _)
FilteredFiles(raster_files, tokens) ==
    IF tokens = <<>> THEN <<>>
    ELSE FilesWithToken(raster_files, Head(tokens))
         \o FilteredFiles(raster_files, Tail(tokens))

\* raster_files: the files of the scene with a raster extension, narrowed
\* by the band filter when one is given ("if bands:")
MergeSelection(scene_files, bands) ==
    LET Test(f) == IsRasterPath(f)
        raster_files == SelectSeq(scene_files, Test)
    IN  IF bands # <<>> /\ bands[1] # <<>>
        THEN FilteredFiles(raster_files, bands[1])
        ELSE raster_files

\* meta = src.meta.copy() of the first file; meta.update(count=len(raster_files))
MergedMeta(first_meta, n) == [first_meta EXCEPT !.count = n]

\* <sid>_merged.tif
MergedName(sid) == sid \o <<"_","m","e","r","g","e","d",".","t","i","f">>

\* the body of the loop of merge_bands for a scene of the grouping
MergeScene(folder, names, disk, sid, scene_files, bands, writable) ==
    LET sel == MergeSelection(scene_files, bands)
        srcs == [i \in 1..Len(sel) |-> DiskAt(folder, names, disk, sel[i])]
        Result(error, out) ==
            [scene |-> sid, skipped |-> FALSE, selected |-> sel,
             error |-> error, out |-> out]
    IN  IF sel = <<>> THEN Result("No valid bands found", <<>>)
        ELSE IF \E i \in 1..Len(sel) : srcs[i] = <<>>
        THEN Result("RasterioIOError", <<>>)
        ELSE IF ~SameShape([i \in 1..Len(sel) |-> srcs[i][1]])
        THEN Result("ValueError", <<>>)
        ELSE IF ~writable THEN Result("write error", <<>>)
        ELSE Result(None,
                 << [ path |-> MergedName(sid),
                      meta |-> MergedMeta(srcs[1][1].meta, Len(sel)),
                      bands |-> [i \in 1..Len(sel) |-> srcs[i][1].grid] ] >>)

\* the loop of merge_bands over the requested scenes
RECURSIVE MergeScenes(_, _, _, _, _, _, _)
MergeScenes(folder, names, disk, grouped, ids, bands, writable) ==
    IF ids = <<>> THEN <<>>
    ELSE LET sid == Head(ids)
         IN  (IF ItemIndex(grouped, sid) = 0
              THEN << [scene |-> sid, skipped |-> TRUE, selected |-> <<>>,
                       error |-> "not found", out |-> <<>>] >>
              ELSE << MergeScene(folder, names, disk, sid, ScenesGet(grouped, sid),
                                 bands, writable) >>)
             \o MergeScenes(folder, names, disk, grouped, Tail(ids), bands, writable)

\* SatelliteDataProcessor.merge_bands(output_folder, scene_id, bands)
DP_merge_bands(folder, exists, names, disk, request, bands, writable) ==
    LET grouped == group_files_by_scene(folder, exists, names)
    IN  IF grouped = None /\ request.kind = "all"
        THEN BatchOutcome("AttributeError", "all_scenes is None", <<>>, FALSE)
        ELSE IF grouped = None /\ request.ids # <<>>
        THEN BatchOutcome("TypeError", "all_scenes is None", <<>>, FALSE)
        ELSE IF grouped = None
        THEN BatchOutcome(None, None, <<>>, TRUE)
        ELSE BatchOutcome(None, None,
                 MergeScenes(folder, names, disk, grouped,
                             RequestedIds(grouped, request), bands, writable),
                 TRUE)

\* what the loop of merge_bands prints: the skip of a scene that is not in
\* the grouping, or "Merging bands for scene" and then "No valid bands
\* found", the exception caught, or "Merged raster saved"
RECURSIVE MergeScenesPrinted(_)
MergeScenesPrinted(batch) ==
    IF batch = <<>> THEN <<>>
    ELSE LET r == Head(batch)
         IN  (IF r.skipped
              THEN << [kind |-> "Scene ID not found", about |-> r.scene] >>
              ELSE << [kind |-> "Merging bands for scene", about |-> r.scene],
                      IF r.error = None
                      THEN [kind |-> "Merged raster saved", about |-> r.scene]
                      ELSE [kind |-> r.error, about |-> r.scene] >>)
             \o MergeScenesPrinted(Tail(batch))

\* everything merge_bands prints, o being its outcome: the lines of the
\* grouping and, unless the call raised, "No scene ID specified" for
\* scene_id None, the lines of the loop and "Band merging process complete."
MergePrinted(folder, exists, names, request, o) ==
    group_printed(folder, exists, names)
    \o (IF o.raised # None THEN <<>>
        ELSE (IF request.kind = "all"
              THEN << [kind |-> "No scene ID specified", about |-> <<>>] >>
              ELSE <<>>)
             \o MergeScenesPrinted(o.batch)
             \o << [kind |-> "Band merging process complete", about |-> <<>>] >>)

-----------------------------------------------------------------------------
(* Specification SpecMerge: one input folder, its rasters, and one call of *)
(* merge_bands.                                                            *)

FileA1 == SceneA \o <<"_","S","R","_","B","1">> \o <<".","T","I","F">>
FileA10 == SceneA \o <<"_","S","R","_","B","1","0">> \o <<".","T","I","F">>

\* the names a modelled folder may hold: two band files of the LC08 scene,
\* one band number a prefix of the other, its metadata file, and a band file
\* of the LE07 scene
MergeNames == {FileA1, FileA10, FileAM, FileB4}

\* rasters of the grid of MetaA: all 10, all 30, and one with two bands
Source10 == [meta |-> MetaA, grid |-> Raster10.grid]
Source30 == [meta |-> MetaA, grid |-> Raster30.grid]
SourceTwoBands == [meta |-> [MetaA EXCEPT !.count = 2], grid |-> Raster30.grid]
\* a raster of another shape
SourceOdd == [meta |-> [MetaA EXCEPT !.width = 1], grid |-> RasterOdd.grid]

\* what the file of a name may hold
SourcesOf(name) ==
    IF name = FileA1 THEN { <<>>, <<Source10>>, <<SourceTwoBands>> }
    ELSE IF name = FileA10 THEN { <<Source30>>, <<SourceOdd>> }
    ELSE IF name = FileB4 THEN { <<Source10>> }
    ELSE { <<>> }

MergeDisks(names) ==
    { d \in [1..Len(names) -> UNION { SourcesOf(n) : n \in MergeNames }] :
        \A i \in 1..Len(names) : d[i] \in SourcesOf(names[i]) }

RECURSIVE MergeListingsOfLen(_)
MergeListingsOfLen(n) ==
    IF n = 0 THEN { <<>> }
    ELSE { Append(l, f) : l \in MergeListingsOfLen(n - 1), f \in MergeNames }

MergeListings ==
    { l \in UNION { MergeListingsOfLen(n) : n \in 0..MaxFiles } : NoRepeat(l) }

TokenB1 == <<"_","S","R","_","B","1">>
TokenB10 == <<"_","S","R","_","B","1","0">>
TokenB4 == <<"_","S","R","_","B","4">>

\* the bands argument: None (<<>>), the empty list, or a list of tokens
BandFilters ==
    { <<>>, << <<>> >>, << <<TokenB10>> >>, << <<TokenB4>> >>,
      << <<TokenB10, TokenB4>> >>, << <<TokenB1, TokenB10>> >> }

InitMerge ==
    /\ op = "init"
    /\ file_name = <<>>
    /\ satellite_type = "unset"
    /\ input_folder = <<"i","n">>
    /\ listing \in MergeListings
    /\ folder_exists \in BOOLEAN
    /\ (~folder_exists => listing = <<>>)
    /\ scene_id \in RequestedScenes
    /\ scenes = None
    /\ printed = <<>>
    /\ \E d \in MergeDisks(listing), r \in Requests(scene_id), b \in BandFilters,
          w \in BOOLEAN :
          call = [disk |-> d, request |-> r, bands |-> b, writable |-> w]
    /\ outcome = NoOutcome

\* SatelliteDataProcessor(input_folder).merge_bands(out, scene_id, bands)
DPMergeBands ==
    /\ op' = "DP_merge_bands"
    /\ outcome' = DP_merge_bands(input_folder, folder_exists, listing, call.disk,
                                 call.request, call.bands, call.writable)
    /\ printed' = MergePrinted(input_folder, folder_exists, listing,
                               call.request, outcome')
    /\ UNCHANGED <<file_name, satellite_type, scene_id, input_folder, listing,
                   folder_exists, scenes, call>>

NextMerge == DPMergeBands

SpecMerge == InitMerge /\ [][NextMerge]_vars

-----------------------------------------------------------------------------
(* indice_calculator.  The disk is that of create_band_matrices.  The      *)
(* indices argument is <<>> for None and <<list>> for a list of index      *)
(* names (a single name is made a list of one by the method); writable     *)
(* tells whether the output files can be written.  The outcome is a batch  *)
(* with one entry per requested scene: whether the scene was skipped, the  *)
(* outcome of create_band_matrices (stack), the reference file (B4), and   *)
(* one result per index: the index name, the output file, the outcome of   *)
(* calculate_and_save_index (so), and whether the loop went on to print    *)
(* "Saved <index> for scene" after the call (saved).                       *)

\* indices = ["NDVI", "NDBI", "NDWI", "SAVI"] when indices is None
IndexList(indices) ==
    IF indices = <<>> THEN <<NDVI, NDBI, NDWI, SAVI>> ELSE indices[1]

\* the arguments indice_calculator passes to calculate_and_save_index, and
\* the state of the files the call touches
PipelineCall(folder, names, disk, matrix, index, B4, writable) ==
    [ matrix |-> matrix, index_type |-> index,
      satellite_type |-> detect_satellite_type(B4[1]),
      B4 |-> B4,
      files |-> IF DiskAt(folder, names, disk, B4[1]) = <<>> THEN "unreadable"
                ELSE IF ~writable THEN "write_fails"
                ELSE "ok" ]

\* calculate_and_save_index on what create_band_matrices returned: on None,
\* calculate_<index> fails on matrix.ndim, and the AttributeError is caught
\* and printed like every other exception
SO_index_of_stack(folder, names, disk, st, index, B4, writable) ==
    IF st.has_stack
    THEN SO_calculate_and_save_index(
             PipelineCall(folder, names, disk, st.returned[1], index, B4, writable))
    ELSE IF index \notin SupportedIndices
    THEN Outcome(None, "ValueError", "Unsupported index type", <<>>, <<>>, <<>>)
    ELSE Outcome(None, "AttributeError", "matrix is None", <<>>, <<>>, <<>>)

\* one pass of the loop over indices: the call, then the print of "Saved"
IndexResult(folder, names, disk, st, sid, index, B4, writable) ==
    LET so == SO_index_of_stack(folder, names, disk, st, index, B4, writable)
    IN  [ index |-> index, path |-> OutputFile(sid, index), so |-> so,
          saved |-> TRUE ]

\* the body of the loop of indice_calculator for a scene of the grouping
IndexScene(folder, names, disk, grouped, sid, indices, writable) ==
    LET st == SO_create_band_matrices(folder, TRUE, names, disk, sid)
        B4 == FindB4(ScenesGet(grouped, sid))
        list == IndexList(indices)
    IN  IF B4 = <<>>
        THEN [ scene |-> sid, skipped |-> FALSE,
               error |-> "B4 reference file not found",
               stack |-> st, B4 |-> B4, results |-> <<>> ]
        ELSE [ scene |-> sid, skipped |-> FALSE, error |-> None,
               stack |-> st, B4 |-> B4,
               results |-> [k \in 1..Len(list) |->
                              IndexResult(folder, names, disk, st, sid, list[k],
                                          B4, writable)] ]

\* a variant of IndexScenes that ends the loop at a scene without B4 file
RECURSIVE IndexScenes_stops(_, _, _, _, _, _, _)
IndexScenes_stops(folder, names, disk, grouped, ids, indices, writable) ==
    IF ids = <<>> THEN <<>>
    ELSE LET sid == Head(ids)
         IN  IF ItemIndex(grouped, sid) = 0
             THEN << [scene |-> sid, skipped |-> TRUE, error |-> "not found",
                      stack |-> NoOutcome, B4 |-> <<>>, results |-> <<>>] >>
                  \o IndexScenes_stops(folder, names, disk, grouped, Tail(ids),
                                       indices, writable)
             ELSE LET r == IndexScene(folder, names, disk, grouped, sid,
                                      indices, writable)
                  IN  IF r.error # None THEN << r >>
                      ELSE << r >> \o IndexScenes_stops(folder, names, disk, grouped,
                                                        Tail(ids), indices, writable)

\* the loop of indice_calculator over the requested scenes
RECURSIVE IndexScenes(_, _, _, _, _, _, _)
IndexScenes(folder, names, disk, grouped, ids, indices, writable) ==
    IF ids = <<>> THEN <<>>
    ELSE LET sid == Head(ids)
         IN  (IF ItemIndex(grouped, sid) = 0
              THEN << [scene |-> sid, skipped |-> TRUE, error |-> "not found",
                       stack |-> NoOutcome, B4 |-> <<>>, results |-> <<>>] >>
              ELSE << IndexScene(folder, names, disk, grouped, sid, indices,
                                 writable) >>)
             \o IndexScenes(folder, names, disk, grouped, Tail(ids), indices, writable)

\* SatelliteDataProcessor.indice_calculator(output_folder, indices, scene_id)
DP_indice_calculator(folder, exists, names, disk, request, indices, writable) ==
    LET grouped == group_files_by_scene(folder, exists, names)
    IN  IF grouped = None /\ request.kind = "all"
        THEN BatchOutcome("AttributeError", "all_scenes is None", <<>>, FALSE)
        ELSE IF grouped = None /\ request.ids # <<>>
        THEN BatchOutcome("TypeError", "all_scenes is None", <<>>, FALSE)
        ELSE IF grouped = None
        THEN BatchOutcome(None, None, <<>>, TRUE)
        ELSE BatchOutcome(None, None,
                 IndexScenes(folder, names, disk, grouped,
                             RequestedIds(grouped, request), indices, writable),
                 TRUE)

\* what the loop over indices prints: per index the lines of
\* calculate_and_save_index, then "Saved <index> for scene <scene>"
RECURSIVE ResultsPrinted(_)
ResultsPrinted(results) ==
    IF results = <<>> THEN <<>>
    ELSE LET res == Head(results)
         IN  IndexPrinted(res.index, res.so)
             \o << [kind |-> "Saved", about |-> res.path] >>
             \o ResultsPrinted(Tail(results))

\* what indice_calculator prints for one scene: the skip, or "Processing
\* scene", the lines of create_band_matrices (which groups the folder
\* again), then the missing reference or the lines of the loop over indices
ScenePrinted(folder, names, disk, r) ==
    IF r.skipped THEN << [kind |-> "Scene ID not found", about |-> r.scene] >>
    ELSE << [kind |-> "Processing scene", about |-> r.scene] >>
         \o group_printed(folder, TRUE, names)
         \o StackPrinted(folder, names, disk, r.scene, r.stack, TRUE)
         \o (IF r.error # None THEN << [kind |-> r.error, about |-> r.scene] >>
             ELSE <<>>)
         \o ResultsPrinted(r.results)

\* what the loop over the requested scenes prints
RECURSIVE BatchPrinted(_, _, _, _)
BatchPrinted(folder, names, disk, batch) ==
    IF batch = <<>> THEN <<>>
    ELSE ScenePrinted(folder, names, disk, Head(batch))
         \o BatchPrinted(folder, names, disk, Tail(batch))

\* everything indice_calculator prints, o being its outcome: "No indices
\* specified" for indices None, the lines of the grouping and, unless the
\* call raised, "No scene ID specified" for scene_id None, the lines of the
\* loop and "Index calculation complete."
DP_indice_printed(folder, exists, names, disk, request, indices, o) ==
    (IF indices = <<>>
     THEN << [kind |-> "No indices specified", about |-> <<>>] >>
     ELSE <<>>)
    \o group_printed(folder, exists, names)
    \o (IF o.raised # None THEN <<>>
        ELSE (IF request.kind = "all"
              THEN << [kind |-> "No scene ID specified", about |-> <<>>] >>
              ELSE <<>>)
             \o BatchPrinted(folder, names, disk, o.batch)
             \o << [kind |-> "Index calculation complete", about |-> <<>>] >>)

-----------------------------------------------------------------------------
(* Specification SpecPipeline: one input folder, the rasters in it, and    *)
(* one call of indice_calculator.  The folder holds either the seven       *)
(* surface-reflectance bands of the LC08 scene, listed in ascending band   *)
(* order and each readable or not, or up to MaxFiles of the files of       *)
(* SpecStack.                                                              *)

FileA2 == SceneA \o <<"_","S","R","_","B","2">> \o <<".","T","I","F">>
FileA3 == SceneA \o <<"_","S","R","_","B","3">> \o <<".","T","I","F">>
FileA6 == SceneA \o <<"_","S","R","_","B","6">> \o <<".","T","I","F">>
FileA7 == SceneA \o <<"_","S","R","_","B","7">> \o <<".","T","I","F">>

SevenBands == <<FileA1, FileA2, FileA3, FileA4, FileA5, FileA6, FileA7>>

\* band 1 of the raster of band k: float32 reflectances, two pixels, other
\* values in every band
BandRaster(k) == [dtype |-> "float32", grid |-> << Frac(k, 10), Frac(k, 20) >>]

\* the disks of the seven-band folder: every file readable or not
SevenBandDisks ==
    { [i \in 1..7 |-> IF i \in unreadable THEN <<>> ELSE << BandRaster(i) >>] :
        unreadable \in SUBSET (1..7) }

\* the indices argument: None, one name, a list with an unsupported name
IndexRequests == { <<>>, << <<NDVI>> >>, << <<NDBI, <<"E","V","I">>>> >> }

InitPipeline ==
    /\ op = "init"
    /\ file_name = <<>>
    /\ satellite_type = "unset"
    /\ input_folder = <<"i","n">>
    /\ scenes = None
    /\ printed = <<>>
    /\ outcome = NoOutcome
    /\ \/ /\ listing = SevenBands
          /\ folder_exists = TRUE
          /\ scene_id = SceneA
          /\ \E d \in SevenBandDisks, i \in IndexRequests, w \in BOOLEAN :
                call = [disk |-> d, request |-> [kind |-> "one", ids |-> <<SceneA>>],
                        indices |-> i, writable |-> w]
       \/ /\ listing \in StackListings
          /\ folder_exists \in BOOLEAN
          /\ (~folder_exists => listing = <<>>)
          /\ scene_id = <<"L","C","0","9">>
          /\ \E d \in Disks(listing), r \in Requests(scene_id),
                i \in {<<>>, << <<NDBI, <<"E","V","I">>>> >>} :
                call = [disk |-> d, request |-> r, indices |-> i, writable |-> TRUE]

\* SatelliteDataProcessor(input_folder).indice_calculator(out, indices, scene_id)
DPIndiceCalculator ==
    /\ op' = "DP_indice_calculator"
    /\ outcome' = DP_indice_calculator(input_folder, folder_exists, listing,
                                       call.disk, call.request, call.indices,
                                       call.writable)
    /\ printed' = DP_indice_printed(input_folder, folder_exists, listing,
                                    call.disk, call.request, call.indices,
                                    outcome')
    /\ UNCHANGED <<file_name, satellite_type, scene_id, input_folder, listing,
                   folder_exists, scenes, call>>

NextPipeline == DPIndiceCalculator

SpecPipeline == InitPipeline /\ [][NextPipeline]_vars

-----------------------------------------------------------------------------
(* Specification SpecBatch: the three batch operations of                  *)
(* SatelliteDataProcessor, each on the folders and calls of its own        *)
(* specification, with the input folder in place, a list of indices, a     *)
(* target CRS, and no band filter or a filter of two tokens.               *)

\* which operation the call of a state is a call of
IsIndexCall == "indices" \in DOMAIN call
IsReprojectCall == "target_crs" \in DOMAIN call
IsMergeCall == "bands" \in DOMAIN call

InitBatch ==
    /\ InitPipeline \/ InitReproject \/ InitMerge
    /\ folder_exists
    /\ IsIndexCall \/ scene_id = <<"L","C","0","9">>
    /\ IsIndexCall => call.indices # <<>>
    /\ IsReprojectCall => call.target_crs # None
    /\ IsMergeCall => call.bands \in { <<>>, << <<TokenB10, TokenB4>> >> }

BatchIndiceCalculator == IsIndexCall /\ DPIndiceCalculator

BatchReproject == IsReprojectCall /\ DPReproject

BatchMergeBands == IsMergeCall /\ DPMergeBands

NextBatch == BatchIndiceCalculator \/ BatchReproject \/ BatchMergeBands

SpecBatch == InitBatch /\ [][NextBatch]_vars

-----------------------------------------------------------------------------
(* Claims about classification and scene ids (SpecNames).                  *)

\* the two cases of each character of a marker, written out
MarkerLE07 == << {"l","L"}, {"e","E"}, {"0"}, {"7"} >>
MarkerLC08 == << {"l","L"}, {"c","C"}, {"0"}, {"8"} >>
MarkerLC09 == << {"l","L"}, {"c","C"}, {"0"}, {"9"} >>

\* the name holds the marker at some position, each letter in either case
HasMarker(name, m) ==
    \E i \in 0..(Len(name) - Len(m)) : \A k \in 1..Len(m) : name[i + k] \in m[k]

Classified(name) ==
    IF HasMarker(name, MarkerLE07) THEN "landsat7"
    ELSE IF HasMarker(name, MarkerLC08) THEN "landsat8"
    ELSE IF HasMarker(name, MarkerLC09) THEN "landsat9"
    ELSE None

\* C1: for every non-empty file name, detect_satellite_type (of SceneOperations
\* and of SceneProcessor) returns landsat7 if the name holds "le07" in any
\* case, otherwise landsat8 if it holds "lc08", otherwise landsat9 if it
\* holds "lc09", otherwise None: the first marker in the order LE07, LC08,
\* LC09 wins.
C1_Classify ==
    (op \in {"detect_satellite_type", "SP_detect_satellite_type"}
        /\ file_name # <<>>)
    => satellite_type = Classified(file_name)

\* C1's case: a mixed-case name holding LC09 before LE07 was classified landsat7
C1_Witness ==
    /\ op = "detect_satellite_type"
    /\ HasMarker(file_name, MarkerLC09)
    /\ HasMarker(file_name, MarkerLE07)
    /\ ~Contains(LE07, file_name)
    /\ satellite_type = "landsat7"

\* the positions of the underscores of a name
UnderscoresOf(name) == { i \in 1..Len(name) : name[i] = "_" }

\* the position of the k-th underscore of a name that has at least k
NthUnderscore(name, k) ==
    CHOOSE i \in UnderscoresOf(name) :
        Cardinality({ j \in UnderscoresOf(name) : j <= i }) = k

\* C2: the scene id of a file name is its first 7 underscore-delimited tokens
\* rejoined with "_" (the text before the 7th underscore); a name with fewer
\* than 7 tokens, and one with exactly 7, is its own scene id.
C2_SceneId ==
    op = "scene_id"
    => scene_id = IF Cardinality(UnderscoresOf(file_name)) < 7
                  THEN file_name
                  ELSE SubSeq(file_name, 1, NthUnderscore(file_name, 7) - 1)

\* C2's case: a name of fewer than 7 tokens, one of them empty, is its own scene id
C2_Witness ==
    /\ op = "scene_id"
    /\ Cardinality(UnderscoresOf(file_name)) \in 2..5
    /\ Contains(<<"_", "_">>, file_name)
    /\ scene_id = file_name

-----------------------------------------------------------------------------
(* Claims about grouping (SpecCatalog).                                    *)

\* where a path occurs in a grouping: the pairs <<item, position>>
OccurrencesOf(d, path) ==
    { kj \in (1..Len(d)) \X (1..MaxFiles + 1) :
        kj[2] <= Len(d[kj[1]].files) /\ d[kj[1]].files[kj[2]] = path }

\* a listed name that grouping keeps: not hidden, and not classified UNKNOWN
KeptName(name) == name[1] # "." /\ Classified(name) # None

\* C3: group_files_by_scene returns a mapping in which every listed name that
\* is neither hidden nor UNKNOWN appears exactly once, as its folder-joined
\* path, in the list of the key equal to its scene id; no hidden or UNKNOWN
\* name appears in any list, and no key maps to an empty list.
C3_Grouping ==
    (op \in {"group_files_by_scene", "SP_group_files_by_scene"} /\ scenes # None)
    => /\ \A i \in 1..Len(listing) :
            LET name == listing[i]
                occ  == OccurrencesOf(scenes, PathJoin(input_folder, name))
            IN  IF KeptName(name)
                THEN /\ Cardinality(occ) = 1
                     /\ \A kj \in occ : scenes[kj[1]].id = SceneIdOf(name)
                ELSE occ = {}
       /\ \A k \in 1..Len(scenes) : scenes[k].files # <<>>
       /\ \A k, l \in 1..Len(scenes) : k # l => scenes[k].id # scenes[l].id

\* C3's case: a folder holding a hidden file and two files of one scene was
\* grouped, and the two files share one list
C3_Witness ==
    /\ op = "group_files_by_scene"
    /\ scenes # None
    /\ \E i \in 1..Len(listing) : listing[i][1] = "."
    /\ \E k \in 1..Len(scenes) : Len(scenes[k].files) = 2

-----------------------------------------------------------------------------
(* Claims about the index engine (SpecIndex).  The expected values are     *)
(* computed on integers, outside the model's pixel arithmetic.             *)

ComputeOps == {"SO_calculate_and_save_index", "IC_calculate_and_save_index"}

\* a/b for integers a and b # 0, as a value in lowest terms
Ratio(a, b) ==
    LET g == Gcd(Abs(a), Abs(b))
    IN  IF b > 0 THEN <<a \div g, b \div g>> ELSE <<(-a) \div g, (-b) \div g>>

\* the exact normalized difference of two finite values x = x1/x2, y = y1/y2:
\* 0 when x + y = 0, (x - y)/(x + y) otherwise
ExactND(x, y) ==
    IF x[1] * y[2] + y[1] * x[2] = 0 THEN <<0, 1>>
    ELSE Ratio(x[1] * y[2] - y[1] * x[2], x[1] * y[2] + y[1] * x[2])

\* C4: for every pair of equally-shaped bands (band1, band2), the
\* normalized-difference result (NDVI, NDWI, NDBI) is, at each pixel, 0 when
\* band1 + band2 = 0 and (band1 - band2)/(band1 + band2) otherwise.
C4_NormalizedDifference ==
    (/\ op \in ComputeOps \cup {"calculate_normalized_difference"}
     /\ outcome.has_index
     /\ (op \in ComputeOps => Upper(call.index_type) \in {NDVI, NDWI, NDBI}))
    => \A p \in 1..Len(outcome.index) :
          outcome.index[p] = ExactND(outcome.operands[1][p], outcome.operands[2][p])

\* the BandRoleMap: the zero-based stack position of each role
RolePosition(satellite, role) ==
    IF satellite = "landsat7"
    THEN (IF role = "red" THEN 2 ELSE IF role = "green" THEN 1
          ELSE IF role = "nir" THEN 3 ELSE 4)
    ELSE (IF role = "red" THEN 3 ELSE IF role = "green" THEN 2
          ELSE IF role = "nir" THEN 4 ELSE 5)

\* the two roles of each index formula, minuend first
RolesOf(index) ==
    IF index = NDWI THEN <<"green", "nir">>
    ELSE IF index = NDBI THEN <<"swir", "nir">>
    ELSE <<"nir", "red">>

\* C5: compute takes each logical band from the stack position the
\* BandRoleMap gives for the satellite type (landsat7: red 2, green 1, nir 3,
\* swir 4; landsat8 and landsat9: red 3, green 2, nir 4, swir 5); NDVI of a
\* landsat7 stack is computed from stack[3] and stack[2].
C5_BandRoles ==
    (/\ op \in ComputeOps
     /\ outcome.has_index
     /\ call.index_type \in SupportedIndices
     /\ call.satellite_type \in {"landsat7", "landsat8", "landsat9"})
    => \A k \in 1..2 :
          outcome.operands[k] =
              call.matrix.bands[
                  RolePosition(call.satellite_type, RolesOf(call.index_type)[k]) + 1]

\* C6: no index output holds a NaN or an infinite pixel: every pixel of the
\* grid written out is finite (0 where the division is undefined), for NDVI,
\* NDWI, NDBI and SAVI alike.
C6_FiniteOutput ==
    (op \in ComputeOps /\ outcome.wrote)
    => \A p \in 1..Len(outcome.written[1].grid) : outcome.written[1].grid[p][2] # 0

\* the exact SAVI of nir = x1/x2 and red = y1/y2 with L = l1/l2, where
\* nir + red + L # 0: ((nir - red)/(nir + red + L)) * (1 + L)
ExactSAVI(x, y, l) ==
    Ratio((x[1] * y[2] - y[1] * x[2]) * (l[2] + l[1]),
          (x[1] * y[2] * l[2] + y[1] * x[2] * l[2] + l[1] * x[2] * y[2]))

\* C7: SAVI is, at every pixel with NIR + RED + L # 0,
\* ((NIR - RED)/(NIR + RED + L)) * (1 + L) with L = 0.5; NIR = RED = 0.3 gives
\* 0 and NIR = 0.8, RED = 0.2 gives 0.6.
C7_Savi ==
    (op \in ComputeOps /\ outcome.has_index /\ Upper(call.index_type) = SAVI)
    => \A p \in 1..Len(outcome.index) :
          LET x == outcome.operands[1][p]
              y == outcome.operands[2][p]
          IN  (x[1] * y[2] * 2 + y[1] * x[2] * 2 + x[2] * y[2] # 0)
              => outcome.index[p] = ExactSAVI(x, y, <<1, 2>>)

\* the number of bands the claim requires for an index
RequiredBands(index) == IF index = NDBI THEN 6 ELSE 5

\* C8: compute fails, and the failure reaches its caller, whenever the stack
\* has fewer bands than the index requires (fewer than 5 for NDVI, NDWI,
\* SAVI; fewer than 6 for NDBI); no index grid is produced and nothing is
\* written.
C8_InsufficientBands ==
    (/\ op \in ComputeOps
     /\ call.index_type \in SupportedIndices
     /\ Len(call.matrix.bands) < RequiredBands(call.index_type))
    => /\ outcome.raised # None
       /\ ~outcome.has_index
       /\ ~outcome.wrote

\* C9: compute fails with UnsupportedIndexType, surfaced to its caller, for
\* every index name outside {NDVI, NDWI, NDBI, SAVI}; it never returns
\* normally for such a name.
C9_UnsupportedIndex ==
    (op \in ComputeOps /\ call.index_type \notin {NDVI, NDWI, NDBI, SAVI})
    => outcome.raised # None

\* C10: compute fails with UnsupportedSatelliteType for every satellite type
\* other than landsat7, landsat8, landsat9 (None included); it never
\* computes an index for such a type from default band positions.
C10_UnsupportedSatellite ==
    (op \in ComputeOps
     /\ call.satellite_type \notin {"landsat7", "landsat8", "landsat9"})
    => /\ outcome.raised # None
       /\ ~outcome.has_index
       /\ ~outcome.wrote


-----------------------------------------------------------------------------
(* Claims about calculate_savi's soil adjustment factor (SpecSavi).        *)

\* L is a number of the interval [0, 1]
InUnitInterval(L) == L[2] > 0 /\ L[1] >= 0 /\ L[2] - L[1] >= 0

\* C11: the SAVI computation fails with InvalidParameter (ValueError) for
\* every caller-supplied L outside [0, 1], and does not fail for that reason
\* for any L with 0 <= L <= 1, both bounds included.
C11_SaviParameter ==
    (op = "calculate_savi")
    => /\ ~InUnitInterval(call.L) => outcome.raised = "ValueError"
       /\ InUnitInterval(call.L) => outcome.why # "L out of range"
       /\ (InUnitInterval(call.L) /\ Len(call.matrix.bands) >= 5)
              => outcome.raised = None /\ outcome.has_index

\* C11's case: calculate_savi was called on a 5-band stack with L = 1, the
\* upper bound, and returned an index
C11_Witness ==
    /\ op = "calculate_savi"
    /\ call.L = <<1, 1>>
    /\ Len(call.matrix.bands) = 5
    /\ outcome.raised = None
    /\ outcome.has_index


-----------------------------------------------------------------------------
(* Claims about create_band_matrices (SpecStack).                          *)

StackOps == {"SO_create_band_matrices", "SP_create_band_matrices"}

\* the positions of the listing whose file belongs to the scene asked for
ScenePositions ==
    { i \in 1..Len(listing) : KeptName(listing[i]) /\ SceneIdOf(listing[i]) = scene_id }

\* the name of a file holds the token "_sr_b", in any case
HasBandToken(name) ==
    \E i \in 1..(Len(name) - 4) :
        /\ name[i] = "_"
        /\ name[i + 1] \in {"s", "S"}
        /\ name[i + 2] \in {"r", "R"}
        /\ name[i + 3] = "_"
        /\ name[i + 4] \in {"b", "B"}

\* the positions of the scene's files that the token selects
SelectedPositions == { i \in ScenePositions : HasBandToken(listing[i]) }

\* the positions of the selected files that can be read
ReadablePositions == { i \in SelectedPositions : call.disk[i] # <<>> }

\* the members of a set of positions, in ascending order
RECURSIVE Ascending(_)
Ascending(set) ==
    IF set = {} THEN <<>>
    ELSE LET m == CHOOSE x \in set : \A y \in set : x <= y
         IN  <<m>> \o Ascending(set \ {m})

\* C12: create_band_matrices fails with SceneNotFound when the scene id is
\* absent from the grouping and with NoValidBands when no band file of the
\* scene matched or could be read; in both cases the error reaches the
\* caller, no value (such as None) is returned.
C12_StackFailures ==
    (op \in StackOps /\ folder_exists /\ ReadablePositions = {})
    => outcome.raised # None

\* C13: the stack returned by create_band_matrices consists of exactly the
\* readable selected band files of the scene, in the order of the scene's
\* file list: as many bands as readable selected files, an unreadable file
\* skipped without aborting while at least one file is read, the order of
\* the others kept.
C13_StackContent ==
    (op \in StackOps /\ folder_exists)
    => LET want == Ascending(ReadablePositions)
       IN  /\ outcome.has_stack
              => outcome.returned[1].bands =
                     [k \in 1..Len(want) |-> call.disk[want[k]][1].grid]
           /\ (/\ want # <<>>
               /\ \A j, k \in 1..Len(want) :
                     Len(call.disk[want[j]][1].grid) = Len(call.disk[want[k]][1].grid))
              => outcome.has_stack

\* C14: create_band_matrices selects a file of the scene if and only if the
\* file's name holds the token "_sr_b", case-insensitively; the selection
\* does not depend on the path of the input folder.
C14_Selection ==
    (op \in StackOps /\ folder_exists /\ ScenePositions # {})
    => LET want == Ascending(SelectedPositions)
       IN  outcome.selected =
               [k \in 1..Len(want) |-> PathJoin(input_folder, listing[want[k]])]

\* C15: for an input folder holding exactly two LC08 band files of one
\* scene, an _SR_B4 file of pixels 10 and an _SR_B5 file of pixels 30, the
\* stack has 2 bands and the NDVI computed on it is (30-10)/(30+10) = 0.5 at
\* every pixel.
C15_EndToEnd ==
    (/\ op = "stack_then_index"
     /\ folder_exists
     /\ scene_id = SceneA
     /\ \E i, j \in 1..2 :
           /\ Len(listing) = 2
           /\ listing[i] = FileA4 /\ call.disk[i] = <<Raster10>>
           /\ listing[j] = FileA5 /\ call.disk[j] = <<Raster30>>)
    => /\ outcome.stack.has_stack
       /\ Len(outcome.stack.returned[1].bands) = 2
       /\ outcome.so.raised = None
       /\ outcome.so.has_index
       /\ \A p \in 1..Len(outcome.so.index) : outcome.so.index[p] = <<1, 2>>


-----------------------------------------------------------------------------
(* Claims about reprojection (SpecReproject).                              *)

ReprojectSceneOps == {"SO_reproject_scene", "SP_reproject_scene"}

\* the position in the listing of the file at a path
PositionOf(path) ==
    CHOOSE i \in 1..Len(listing) : PathJoin(input_folder, listing[i]) = path

\* the name ends in ".tif" or ".geotiff", in any case
IsRasterName(name) ==
    LET n == Len(name)
    IN  \/ /\ n >= 4
           /\ name[n - 3] = "."
           /\ name[n - 2] \in {"t", "T"}
           /\ name[n - 1] \in {"i", "I"}
           /\ name[n] \in {"f", "F"}
        \/ /\ n >= 8
           /\ Lower(SubSeq(name, n - 7, n)) = <<".","g","e","o","t","i","f","f">>

\* the metadata fields a reprojection may change
SpatialFields == {"crs", "transform", "width", "height"}

\* C16: for every raster file that reproject_scene reprojects, the output's
\* metadata equals the source's except for crs, transform, width and height
\* (dtype, band count and nodata unchanged), the output CRS is the requested
\* target CRS, and exactly one output band is written per source band.
C16_ReprojectMeta ==
    (op \in ReprojectSceneOps)
    => \A k \in 1..Len(outcome.files) :
          LET r == outcome.files[k]
              src == call.disk[PositionOf(r.path)].src[1]
          IN  r.out # <<>>
              => /\ DOMAIN r.out[1].meta = DOMAIN src
                 /\ \A f \in DOMAIN src \ SpatialFields : r.out[1].meta[f] = src[f]
                 /\ r.out[1].meta.crs = call.target_crs
                 /\ r.out[1].bands = [b \in 1..src.count |-> b]

\* C16's case: a two-band raster was reprojected, and a raster was
\* reprojected onto a grid of another size
C16_Witness ==
    /\ op \in ReprojectSceneOps
    /\ \E k \in 1..Len(outcome.files) :
          /\ outcome.files[k].out # <<>>
          /\ outcome.files[k].out[1].meta.count = 2
    /\ \E k \in 1..Len(outcome.files) :
          /\ outcome.files[k].out # <<>>
          /\ outcome.files[k].out[1].meta.width
                 # call.disk[PositionOf(outcome.files[k].path)].src[1].width

\* the raster files of the scene asked for, in listing order
SceneRasterPositions == { i \in ScenePositions : IsRasterName(listing[i]) }

\* C17: in reproject_scene a failure on one file (unreadable source, invalid
\* CRS string, write error) is reported and only that file is skipped: every
\* later raster file of the scene is still attempted, and the call returns
\* normally.
C17_BestEffort ==
    (op \in ReprojectSceneOps /\ folder_exists /\ ScenePositions # {})
    => LET want == Ascending(SceneRasterPositions)
       IN  /\ outcome.raised = None
           /\ outcome.complete
           /\ Len(outcome.files) = Len(want)
           /\ \A k \in 1..Len(want) :
                 LET r == outcome.files[k]
                 IN  /\ r.path = PathJoin(input_folder, listing[want[k]])
                     /\ r.error # None
                        => /\ r.out = <<>>
                           /\ \E j \in 1..Len(printed) :
                                 printed[j] = [kind |-> r.error, about |-> r.path]

\* C17's case: the first raster file of the scene failed and a later one was
\* reprojected
C17_Witness ==
    /\ op \in ReprojectSceneOps
    /\ Len(outcome.files) >= 2
    /\ outcome.files[1].error # None
    /\ outcome.files[Len(outcome.files)].out # <<>>

\* C18: the top-level reproject call fails as a whole (an error raised to
\* the caller, no scene processed) if the target CRS is unspecified or is an
\* invalid CRS string, and only in those cases.
C18_WholeFailure ==
    (op = "DP_reproject")
    => /\ (call.target_crs \notin ValidCRS) <=> (outcome.raised # None)
       /\ (outcome.raised # None) => (outcome.batch = <<>>)


-----------------------------------------------------------------------------
(* Claims about merge_bands (SpecMerge).                                   *)

\* the positions of the listing whose file belongs to a scene
ScenePositionsOf(sid) ==
    { i \in 1..Len(listing) : KeptName(listing[i]) /\ SceneIdOf(listing[i]) = sid }

\* the raster files of a scene whose name holds a token
MatchingPositions(sid, token) ==
    { i \in ScenePositionsOf(sid) :
        IsRasterName(listing[i]) /\ Contains(token, listing[i]) }

\* the files the tokens select, each file once: token by token, in listing
\* order within a token
RECURSIVE SelectionByTokens(_, _, _)
SelectionByTokens(sid, tokens, seen) ==
    IF tokens = <<>> THEN <<>>
    ELSE LET new == MatchingPositions(sid, Head(tokens)) \ seen
         IN  Ascending(new) \o SelectionByTokens(sid, Tail(tokens), seen \cup new)

\* the selected raster files of a scene, in selection order
MergeWanted(sid) ==
    IF call.bands = <<>>
    THEN Ascending({ i \in ScenePositionsOf(sid) : IsRasterName(listing[i]) })
    ELSE SelectionByTokens(sid, call.bands[1], {})

\* every selected file can be read, and all have one shape
Mergeable(want) ==
    /\ \A k \in 1..Len(want) : call.disk[want[k]] # <<>>
    /\ \A j, k \in 1..Len(want) :
          Len(call.disk[want[j]][1].grid) = Len(call.disk[want[k]][1].grid)

\* C19: merge_bands writes, for a scene with n selected raster files, one
\* output with exactly n bands in which band i is band 1 of the i-th selected
\* file (selection order), and whose metadata is that of the first selected
\* file with only the band count changed.
C19_MergeOutput ==
    (op = "DP_merge_bands")
    => \A e \in 1..Len(outcome.batch) :
          LET r == outcome.batch[e]
              want == MergeWanted(r.scene)
          IN  /\ (~r.skipped /\ want # <<>> /\ Mergeable(want) /\ call.writable)
                 => r.out # <<>>
              /\ r.out # <<>>
                 => /\ Len(r.out[1].bands) = Len(want)
                    /\ r.out[1].meta.count = Len(want)
                    /\ \A k \in 1..Len(want) :
                          r.out[1].bands[k] = call.disk[want[k]][1].grid
                    /\ \A f \in DOMAIN r.out[1].meta \ {"count"} :
                          r.out[1].meta[f] = call.disk[want[1]][1].meta[f]

\* C20: merge fails with NoBandsSelected whenever the raster-extension
\* restriction plus the optional band filter leave no file selected for the
\* scene; no merged output is written for that scene.  A filter that is a
\* list without tokens selects no file.
C20_NoBandsSelected ==
    (op = "DP_merge_bands")
    => \A e \in 1..Len(outcome.batch) :
          LET r == outcome.batch[e]
          IN  (~r.skipped /\ MergeWanted(r.scene) = <<>>)
              => /\ r.error = "No valid bands found"
                 /\ r.out = <<>>
                 /\ \E j \in 1..Len(printed) :
                       printed[j] = [kind |-> r.error, about |-> r.scene]

-----------------------------------------------------------------------------
(* Claims about the missing folder and about listing order (SpecCatalog).  *)

\* the two implementations of the grouping operation
GroupOps == {"group_files_by_scene", "SP_group_files_by_scene"}

\* C21: groupByScene signals NotFound to its caller when the input folder
\* does not exist at the time of the scan (for example because it was
\* removed after the object was constructed); it returns no value then.
C21_GroupNotFound ==
    (op \in GroupOps /\ ~folder_exists)
    => /\ outcome.raised = "FileNotFoundError"
       /\ scenes = None

\* the orders in which the operating system may list the files of the folder
Reorderings(l) ==
    { [i \in 1..Len(l) |-> l[p[i]]] :
        p \in { f \in [1..Len(l) -> 1..Len(l)] :
                  \A i, j \in 1..Len(l) : i # j => f[i] # f[j] } }

\* the keys of a grouping, and the paths listed under a key, as sets
KeySet(d) == { d[i].id : i \in 1..Len(d) }

FileSet(d, sid) == { ScenesGet(d, sid)[j] : j \in 1..Len(ScenesGet(d, sid)) }

\* two groupings that differ at most in the order of keys and of paths
SameMapping(d, e) ==
    /\ KeySet(d) = KeySet(e)
    /\ \A sid \in KeySet(d) :
          /\ FileSet(d, sid) = FileSet(e, sid)
          /\ Len(ScenesGet(d, sid)) = Len(ScenesGet(e, sid))

\* a second scan of the unchanged folder, listed in the order q
Rescan(q) ==
    IF op = "group_files_by_scene"
    THEN group_files_by_scene(input_folder, folder_exists, q)
    ELSE SP_group_files_by_scene(input_folder, q)

\* C22: grouping is idempotent and order-independent: two scans of the same
\* unchanged folder, under any two directory-listing orders, yield mappings
\* with the same set of scene-id keys and, for each key, the same set of file
\* paths; only the order within a list may differ.
C22_OrderIndependent ==
    (op \in GroupOps /\ scenes # None)
    => \A q \in Reorderings(listing) : SameMapping(scenes, Rescan(q))

\* C22's case: a folder with files of two scenes and an unrecognized file was
\* grouped, and another listing order gives the keys in another order
C22_Witness ==
    /\ op = "group_files_by_scene"
    /\ scenes # None
    /\ Len(scenes) = 2
    /\ \E i \in 1..Len(listing) :
          listing[i][1] # "." /\ Classified(listing[i]) = None
    /\ \E q \in Reorderings(listing) : Rescan(q) # scenes

-----------------------------------------------------------------------------
(* Claims about value ranges and integer rasters (SpecValidCalls).         *)

\* a finite pixel value that is not negative
NonNegative(x) == x[2] > 0 /\ x[1] >= 0

\* a finite pixel value in [-1, 1]
InMinusOneToOne(x) == x[2] > 0 /\ -x[2] <= x[1] /\ x[1] <= x[2]

\* C23: for every pixel pair (a, b) of non-negative band values, the
\* NDVI/NDWI/NDBI result lies in [-1, 1]; this holds for the grid computed
\* from bands exactly as they are read from the raster files, unsigned
\* integer rasters included.
C23_ResultRange ==
    (/\ op \in ComputeOps
     /\ outcome.has_index
     /\ Upper(call.index_type) \in {NDVI, NDWI, NDBI})
    => \A p \in 1..Len(outcome.index) :
          (NonNegative(outcome.operands[1][p]) /\ NonNegative(outcome.operands[2][p]))
          => InMinusOneToOne(outcome.index[p])

\* the exact value of an index formula at one pixel of two integer bands
ExactIndex(index, x, y) ==
    IF index = SAVI THEN ExactSAVI(x, y, SAVI_L) ELSE ExactND(x, y)

\* C26: for band stacks of 16-bit unsigned integers (the dtype
\* create_band_matrices returns for uint16 rasters, passed unconverted to
\* calculate_ndvi/ndwi/ndbi/savi), every index pixel equals the exact
\* mathematical value of its formula: no difference a - b with a < b and no
\* sum a + b >= 65536 is reduced modulo 2^16, so a pixel with red > nir
\* yields a negative NDVI and a sum of 65536 is not taken for a zero
\* denominator.
C26_NoWrapAround ==
    (/\ op \in ComputeOps
     /\ outcome.has_index
     /\ call.matrix.dtype = "uint16")
    => \A p \in 1..Len(outcome.index) :
          outcome.index[p] = ExactIndex(Upper(call.index_type),
                                        outcome.operands[1][p],
                                        outcome.operands[2][p])

-----------------------------------------------------------------------------
(* Claim about diagnostics (SpecCatalog).                                  *)

\* a printed line names a file when it is about the name, the name in lower
\* case, or the path of the file
Names(line, name) ==
    line.about \in {name, Lower(name), PathJoin(input_folder, name)}

\* C24: every skip or failure in grouping, stacking, index calculation,
\* reprojection and merging emits a human-readable diagnostic naming the file
\* or scene and the reason: no file of the input folder is left out of a
\* result (hidden file, UNKNOWN file, non-raster file, unreadable band)
\* without such a diagnostic.  Stated for grouping: a listed file that is in
\* no list of the grouping is named by a printed line.
C24_Diagnostics ==
    (op \in GroupOps /\ scenes # None)
    => \A i \in 1..Len(listing) :
          (OccurrencesOf(scenes, PathJoin(input_folder, listing[i])) = {})
          => \E j \in 1..Len(printed) : Names(printed[j], listing[i])

-----------------------------------------------------------------------------
(* Claim about the band filter (SpecMerge).                                *)

\* the raster files of a scene whose name holds at least one of the tokens
FilesMatchingAny(sid, tokens) ==
    UNION { MatchingPositions(sid, tokens[t]) : t \in 1..Len(tokens) }

\* C28: in merge_bands with a band filter, every raster file of the scene
\* contributes at most one band to the merged output, for any list of filter
\* tokens (also when one token is a substring of another, such as "_SR_B1"
\* and "_SR_B10"): the output band count equals the number of distinct scene
\* files matching at least one token.
C28_OneBandPerFile ==
    (op = "DP_merge_bands" /\ call.bands # <<>>)
    => \A e \in 1..Len(outcome.batch) :
          LET r == outcome.batch[e]
          IN  r.out # <<>>
              => /\ Len(r.out[1].bands)
                      = Cardinality(FilesMatchingAny(r.scene, call.bands[1]))
                 /\ r.out[1].meta.count = Len(r.out[1].bands)
                 /\ \A j, k \in 1..Len(r.selected) :
                       j # k => r.selected[j] # r.selected[k]

-----------------------------------------------------------------------------
(* Claim about the batch operations (SpecBatch).                           *)

BatchOps == {"DP_indice_calculator", "DP_reproject", "DP_merge_bands"}

\* the scenes a batch call is asked for, in order: the scenes of the folder
\* in the order of their first file when scene_id is None, the list given
\* otherwise
AskedFor ==
    IF call.request.kind = "all"
    THEN ScenesKeys(group_files_by_scene(input_folder, TRUE, listing))
    ELSE call.request.ids

\* the entry of a scene shows that the operation went into the scene: the
\* stack was asked for, the files were looked up, or the selection was made
Attempted(r) ==
    IF op = "DP_indice_calculator" THEN r.stack # NoOutcome
    ELSE IF op = "DP_reproject" THEN r.result # NoOutcome
    ELSE r.error # "not found"

\* C25: in the batch operations indice_calculator, reproject and merge_bands,
\* for any list of requested scenes each requested scene is attempted in list
\* order, a failure or skip of one scene (not found, no B4 reference, stack
\* or read error) never prevents any later scene from being attempted, and
\* the call always reaches its final completion step.
C25_BatchContinues ==
    (/\ op \in BatchOps
     /\ folder_exists
     /\ (op = "DP_reproject" => call.target_crs # None))
    => /\ outcome.raised = None
       /\ outcome.complete
       /\ Len(outcome.batch) = Len(AskedFor)
       /\ \A e \in 1..Len(outcome.batch) :
             LET r == outcome.batch[e]
             IN  /\ r.scene = AskedFor[e]
                 /\ r.skipped <=> (ScenePositionsOf(r.scene) = {})
                 /\ ~r.skipped => Attempted(r)

\* C25's case: indice_calculator met a scene without B4 reference, or a
\* scene whose stack was not built, and went on to a later scene that it
\* attempted
C25_Witness ==
    /\ op = "DP_indice_calculator"
    /\ outcome.complete
    /\ \E e \in 1..Len(outcome.batch) :
          /\ ~outcome.batch[e].skipped
          /\ \/ outcome.batch[e].error # None
             \/ ~outcome.batch[e].stack.has_stack
          /\ \E l \in (e + 1)..Len(outcome.batch) : ~outcome.batch[l].skipped

-----------------------------------------------------------------------------
(* Claims about indice_calculator (SpecPipeline).                          *)

\* "Saved <index> for scene <scene> to <path>" was printed for a result
SavedReported(res) ==
    \E j \in 1..Len(printed) : printed[j] = [kind |-> "Saved", about |-> res.path]

\* C27: indice_calculator reports "Saved <index> for scene <scene>" only if
\* that call actually wrote the file <output_folder>/<scene>/<index>.tif;
\* when the index computation or the write fails (unsupported index name,
\* too few bands, stack not built, invalid B4 reference), no success message
\* is reported for that index.
C27_SavedMeansWritten ==
    (op = "DP_indice_calculator")
    => \A e \in 1..Len(outcome.batch) :
          \A k \in 1..Len(outcome.batch[e].results) :
             LET res == outcome.batch[e].results[k]
             IN  SavedReported(res) => res.so.wrote

\* the band numbers of the files an index is computed from on Landsat 8/9,
\* minuend first: NIR is B5, RED is B4, GREEN is B3, SWIR is B6
RoleBands(index) ==
    IF index = NDWI THEN <<3, 5>>
    ELSE IF index = NDBI THEN <<6, 5>>
    ELSE <<5, 4>>

\* C29: for a Landsat 8/9 scene whose SR band files B1..B7 are listed in
\* ascending band-number order, any index written by indice_calculator is
\* computed from the data of the band files its roles name (NDVI from the B5
\* file as NIR and the B4 file as RED), whichever subset of the scene's other
\* band files was unreadable and skipped while building the stack; a skipped
\* file never causes another file's data to be used in a role.
C29_RolesSurviveSkips ==
    (op = "DP_indice_calculator" /\ listing = SevenBands)
    => \A e \in 1..Len(outcome.batch) :
          \A k \in 1..Len(outcome.batch[e].results) :
             LET res == outcome.batch[e].results[k]
                 b == RoleBands(res.index)
             IN  res.so.wrote
                 => \A t \in 1..2 :
                       /\ call.disk[b[t]] # <<>>
                       /\ res.so.operands[t] = call.disk[b[t]][1].grid

-----------------------------------------------------------------------------
(* Claim about failed index calls (SpecIndex).                             *)

\* the call fails before the write step: the index name is unsupported, the
\* stack has too few bands, or the B4 reference is missing or not a file
FailsBeforeWrite(c) ==
    \/ c.index_type \notin SupportedIndices
    \/ Len(c.matrix.bands) < RequiredBands(c.index_type)
    \/ c.B4 = <<>>
    \/ c.files = "not_a_file"

\* C30: when SceneOperations.calculate_and_save_index fails before the write
\* step (unsupported index name, stack with too few bands, or B4 reference
\* missing or not a file), the file system is unchanged: no file is created
\* or modified at output_file.
C30_FailureLeavesNoFile ==
    (op = "SO_calculate_and_save_index" /\ FailsBeforeWrite(call))
    => /\ ~outcome.wrote
       /\ outcome.written = <<>>
       /\ outcome.caught # None

\* C30's case: the index was computed from a stack with enough bands, and
\* the call then failed on a B4 reference that is None or not a file
C30_Witness ==
    /\ op = "SO_calculate_and_save_index"
    /\ call.index_type \in SupportedIndices
    /\ call.B4 = <<>> \/ call.files = "not_a_file"
    /\ outcome.has_index
    /\ outcome.caught = "FileNotFoundError"

=============================================================================
